---- MODULE Spec2Model ----
(***************************************************************************)
(* Verification model of the sylphie storage core: LockSet, LruCache,      *)
(* BaseKvsStore, InternerHive, the migration runner, the connection pool   *)
(* wrappers and the KVS registration pass.                                 *)
(*                                                                         *)
(* The specifications of this module share its variables:                  *)
(*   Spec        tasks calling get/set/remove/get_mut/try_get_mut on one   *)
(*               BaseKvsStore (its LockSet, its LruCache and its table)    *)
(*   SpecIntern  tasks calling intern and rev_intern on one InternerHive   *)
(*   SpecHive    the same calls from any startup table, over a shorter run *)
(*   SpecMig     calls of MigrationManagerState::execute_migration         *)
(*   SpecConn    one client of Database::connect: transactions, SQL calls, *)
(*               drops and cancellation                                    *)
(*   SpecLru     tasks calling insert/cached/invalidate on one LruCache;   *)
(*               SpecLruFair adds fair scheduling                          *)
(*   SpecReg     init_kvs over restarts of the process                     *)
(*   SpecNames   init_kvs over fewer restarts, one key schema version      *)
(*   SpecDrift   init_kvs by builds that change the key schema of a store  *)
(*   SpecOld     get and set on a store that holds a row of an old schema  *)
(*   SpecGetSet  get and set on a new store                                *)
(*   SpecUpgrade get and set on an old row of a type that migrates it      *)
(*   SpecLock    remove calls alone; SpecLockFair adds fair scheduling     *)
(*   SpecPool    storage operations sharing the bounded connection pool    *)
(*   SpecIns     cached and insert calls on a cache with a resident key    *)
(*   SpecLookup  cached and insert calls, every key with its own value     *)
(*   SpecRepeat  repeated execute calls of one chain of migration scripts  *)
(*   SpecSing    tasks calling get_mut / commit and set on a SingletonStore *)
(***************************************************************************)
EXTENDS Integers, Sequences, FiniteSets, TLC

(* ------------------------------ bounds ------------------------------- *)
NumTasks == 2
NumKeys == 2
NumValues == 1
\* number of cache lines given to LruCache::new
CacheLines == 1
\* calls made on the store in one run
MaxCalls == 3
\* calls made on a store that starts with rows of an earlier build
MaxOldCalls == 2
\* calls made in the runs that only take and drop key locks
MaxLockCalls == 2
\* intern and rev_intern calls made on the hive in one run: MaxCalls where
\* the calls race over the cache, MaxInterns where ids are followed
MaxInterns == 2
\* highest id of a row present when the hive starts
MaxStartId == 2
\* module paths that ever register a store
NumModules == 2
\* how far apart the hash sequences of two modules start
MaxOffset == 1
\* starts of the process in one run: MaxPasses where tables are dropped,
\* MaxNamePasses where table names are followed
MaxPasses == 3
MaxNamePasses == 2
\* init_module calls in a run that follows a change of key schema
MaxRegCalls == 2
\* init_module calls over the passes of the runs that allocate names
MaxNameCalls == 3
\* highest schema version of a migration set, scripts per set, execute calls
MaxVersion == 1
MaxScripts == 2
MaxExecs == 1
\* execute calls of a run that executes its descriptor repeatedly
MaxRepeats == 3
\* slots of the connection pool, operations started by the pool's client
PoolSize == 1
\* Pool::builder().max_size(15), scaled down: connections the pool of the
\* concurrent storage operations hands out at most
MaxSize == 2
\* storage operations started in one run of the pool
MaxCfgCalls == 3
MaxConnOps == 5
\* calls made on the stand-alone LruCache
MaxCacheCalls == 3
\* lines of, and calls made on, the cache of the runs that start with a
\* resident key
InsLines == 2
MaxInsCalls == 2
\* calls made on the cache of the runs in which every key has its own value
MaxLookupCalls == 2
\* get_mut and set calls made on the singleton in one run
MaxSingCalls == 3

Tasks == 1..NumTasks
Keys == 1..NumKeys
Values == 1..NumValues

(* ------------------------- program constants ------------------------- *)
\* V::default(), the value get_mut_default materializes for an absent key
DefaultValue == 0
\* V::SCHEMA_VERSION of the value type the store is compiled with
SCHEMA_VERSION == 1
\* the interned id of V::ID held in BaseKvsStoreInfo::value_id
VALUE_ID == 1
\* T::IS_TRANSIENT of PersistentKvsType
IS_TRANSIENT == FALSE

(* Option<T>: None is the empty sequence, Some(x) the one-element one *)
None == << >>
Some(x) == << x >>
IsSome(o) == Len(o) = 1
Unwrap(o) == o[1]

(* a function with one more (or one overwritten) point, one point less *)
MapPut(f, k, v) == [x \in (DOMAIN f) \cup {k} |-> IF x = k THEN v ELSE f[x]]
MapDel(f, k) == [x \in (DOMAIN f) \ {k} |-> f[x]]
EmptyMap == [x \in {} |-> 0]

VARIABLES
    locks,      \* LockSet::locks of the store: key -> Vec<Waker> (tasks)
    guard,      \* guard[t]: key of the LockSetGuard task t owns, 0 if none
    table,      \* the store's table: key -> row
    cache,      \* the store's LruCache: [cache_data, key_lookup]
    pc,         \* position of each task inside its operation
    op,         \* the call each task is running: [kind, k, v]
    local,      \* locals of the call: [loaded, ul_value, wv]
    ret,        \* what the last finished call returned: [st, val]
    calls,      \* number of calls made so far
    settled     \* history: per key, the outcome of the last mutation that
                \* returned Ok with no mutation step on the key since

VARIABLE
    kvs_run     \* the run of the store: [is_transient, kinds, budget, migrates], the
                \* store type's IS_TRANSIENT, the calls the tasks make and
                \* how many of them

kvsvars == << locks, guard, table, cache, pc, op, local, ret, calls, settled,
              kvs_run >>

VARIABLES
    hive_table,     \* rows of sylphie_db_interner for the hive: [name, int_id]
    hive_cache,     \* InternerHive::cache
    new_value_lock, \* InternerHive::new_value_lock
    max_value,      \* InternerHive::max_value
    itask,          \* per task: [pc, value, id, guard, ret] of its intern call
    icalls,         \* number of intern and rev_intern calls made so far
    allocated,      \* history: per value, the ids taken from max_value for it
    returned        \* history: per value, the ids intern returned for it

VARIABLES
    mig_db,     \* the database as committed: [has_tracking, tracking, schema]
    mig_tx,     \* the open transaction's view of the database, if any
    mig_state,  \* MigrationManagerState: [tables_created, repeat_transaction_watch]
    mig,        \* the running execute_migration call and its locals
    mcalls,     \* number of execute calls made so far
    static_migration, \* the program's `static ...: MigrationData` descriptor
    mbudget     \* how many execute calls the run makes

migvars == << mig_db, mig_tx, mig_state, mig, mcalls, static_migration,
             mbudget >>

VARIABLE
    ibudget     \* how many intern and rev_intern calls the run makes on the hive

internvars == << hive_table, hive_cache, new_value_lock, max_value, itask,
                 icalls, allocated, returned >>

VARIABLES
    pool,       \* Pool<ConnectionManager>: per slot [st, w], w the wrapper
                \* the slot's PooledConnection holds
    dbc,        \* the client's DbConnection: [live, ops]
    dbt,        \* the client's DbTransaction: [live, ops]
    job,        \* the closure run_blocking has on the blocking pool, if any
    side,       \* closures spawned by rollback_in_drop, not yet run
    cpc,        \* the client: "idle", "await" (inside run_blocking), "panicked"
    cops,       \* number of operations the client has started
    conn_hist   \* history of what the drop paths and the pool did

connvars == << pool, dbc, dbt, job, side, cpc, cops, conn_hist >>

VARIABLES
    lru,        \* LruData of a stand-alone LruCache: [cache_data, key_lookup]
    ltask,      \* per task: the cache call it runs and where it is in it
    lcalls,     \* number of cache calls made so far
    lru_hist,   \* history: how the insert calls that ran alone and returned
                \* found their key ("absent", "resident", "busy")
    lru_run     \* the run of the cache: [kinds, budget, keys, values], the
                \* calls the tasks make and how many of them

lruvars == << lru, ltask, lcalls, lru_run, lru_hist >>

VARIABLES
    rev_cache,  \* InternerHive::rev_cache
    resolved    \* history: the (id, name) pairs rev_intern has returned

revvars == << rev_cache, resolved >>

VARIABLES
    cfg,        \* per task: the storage operation it runs, where it is in
                \* it and how many pooled connections it holds
    cfg_calls   \* number of storage operations started so far

cfgvars == << cfg, cfg_calls >>

VARIABLES
    cached_instance, \* SingletonStore::cached_instance: the Option<V> inside
                     \* the RwLock
    locked,     \* the task holding the write half of that RwLock, or 0
    singletons, \* the SingletonData row of this module in SingletonDataStore
    stask,      \* per task: where it is in get_mut / commit / set and the
                \* value its guard or its set_raw call owns
    scalls,     \* number of get_mut and set calls started so far
    sing_hist   \* history: mutated guards committed, set calls made

singvars == << cached_instance, locked, singletons, stask, scalls, sing_hist >>

\* what the steps of one component leave alone
VARIABLES
    kvs_info,   \* rows of sylphie_db_kvs_info and transient.sylphie_db_kvs_info
    db_tables,  \* the KVS tables that exist, [is_transient, table_name]
    reg,        \* InitKvsEvent of the running pass and where init_kvs is
    bound,      \* module_metadata as delivered to the stores by InitKvsLate
    passes,     \* starts of the process so far
    reg_hist,   \* history of the pass: names created, tables dropped, ...
    blake3,     \* per module, where its hash sequence starts
    pass_budget, \* how many starts the run makes
    key_schemas, \* the key schemas (id, version) the builds of the run report
    reg_calls,  \* init_module calls counted against call_budget
    call_budget \* None, or how many init_module calls the run makes

regvars == << kvs_info, db_tables, reg, bound, passes, reg_hist, blake3,
             pass_budget, key_schemas, reg_calls, call_budget >>

nonkvs == << internvars, migvars, connvars, lruvars, revvars, ibudget, regvars, cfgvars, singvars,
            kvs_run >>
nonintern == << kvsvars, migvars, connvars, lruvars, revvars, ibudget, regvars, cfgvars, singvars >>
nonmig == << kvsvars, internvars, connvars, lruvars, revvars, ibudget, regvars, cfgvars, singvars >>
nonconn == << kvsvars, internvars, migvars, lruvars, revvars, ibudget, regvars, cfgvars, singvars >>
nonlru == << kvsvars, internvars, migvars, connvars, revvars, ibudget, regvars, cfgvars, singvars,
            lru_run >>
nonrev == << kvsvars, internvars, migvars, connvars, lruvars, ibudget, regvars, cfgvars, singvars >>
nonreg == << kvsvars, internvars, migvars, connvars, lruvars, revvars, ibudget,
            cfgvars, singvars >>
noncfg == << kvsvars, internvars, migvars, connvars, lruvars, revvars, ibudget,
            regvars, singvars >>
nonsing == << kvsvars, internvars, migvars, connvars, lruvars, revvars, ibudget,
             regvars, cfgvars >>

(* ------------------------------ LockSet ------------------------------ *)
\* self.locks.entry(key).or_default()
OrDefault(l, k) == IF k \in DOMAIN l THEN l ELSE MapPut(l, k, << >>)
\* an entry that never reads as empty
EntryIsEmptyNever(l, k) == FALSE
\* entry.is_empty() on the entry just looked up
EntryIsEmpty(l, k) == Len(OrDefault(l, k)[k]) = 0
\* LockSet::try_lock: the map afterwards (the entry now exists)
TryLockMap(l, k) == OrDefault(l, k)
\* WaitForLockSetFut::poll: the map afterwards; a pending poll queues the waker
PollMap(l, k, t) ==
    IF EntryIsEmpty(l, k) THEN OrDefault(l, k)
    ELSE MapPut(l, k, Append(OrDefault(l, k)[k], t))
\* Drop for LockSetGuard: remove(&key).unwrap() panics on a missing entry
DropPanics(l, k) == k \notin DOMAIN l
DropWakes(l, k) == IF k \in DOMAIN l THEN {l[k][i] : i \in 1..Len(l[k])} ELSE {}
DropMap(l, k) == MapDel(l, k)

(* ------------------------------ LruCache ----------------------------- *)
Lines == 1..CacheLines
EmptyCache == [cache_data |-> [i \in Lines |-> None], key_lookup |-> EmptyMap]

\* a lookup that returns whatever the line named by key_lookup holds
CheckCachedAnyKey(c, k) ==
    IF k \in DOMAIN c.key_lookup
    THEN LET line == c.cache_data[c.key_lookup[k]]
         IN  IF IsSome(line) THEN Some(Unwrap(line).value) ELSE None
    ELSE None
\* LruCache::check_cached
CheckCached(c, k) ==
    IF k \in DOMAIN c.key_lookup
    THEN LET line == c.cache_data[c.key_lookup[k]]
         IN  IF IsSome(line) /\ Unwrap(line).key = k
             THEN Some(Unwrap(line).value) ELSE None
    ELSE None

\* a lookup that never finds the key in a line
ResidentNever(c, k) == FALSE
\* the key is resident: key_lookup names a line that holds this key
Resident(c, k) ==
    /\ k \in DOMAIN c.key_lookup
    /\ IsSome(c.cache_data[c.key_lookup[k]])
    /\ Unwrap(c.cache_data[c.key_lookup[k]]).key = k

NewEntry(k, v) == [key |-> k, value |-> v, is_busy |-> FALSE]

\* LruCache::try_insert_loop run to completion without interference;
\* victim is the line lru.replace() picks when the key is not resident
TryInsertLoop(c, k, v, do_replace, victim) ==
    IF Resident(c, k)
    THEN IF ~do_replace THEN c
         ELSE [c EXCEPT !.cache_data[c.key_lookup[k]] = Some(NewEntry(k, v))]
    ELSE LET old == c.cache_data[victim]
             lk1 == IF IsSome(old) THEN MapDel(c.key_lookup, Unwrap(old).key)
                    ELSE c.key_lookup
         IN  [cache_data |-> [c.cache_data EXCEPT ![victim] = Some(NewEntry(k, v))],
              key_lookup |-> MapPut(lk1, k, victim)]


(* ------------------------- BaseKvsStore: rows ------------------------ *)
\* V::Format::serialize / deserialize: the value blob is a byte string
Serialize(v) == << v >>
Deserialize(b) == b[1]

\* the row KvsStoreQueries::store_value writes (REPLACE INTO ... VALUES)
StoredRow(v, value_schema_id) ==
    [value |-> Serialize(v), schema_id |-> value_schema_id,
     schema_ver |-> SCHEMA_VERSION]

\* DbSerializable::can_migrate_from: false by the trait's default; a value
\* type that declares a migration accepts its own previous schema version
CanMigrateFrom(schema_id, schema_ver) ==
    /\ kvs_run.migrates
    /\ schema_id = VALUE_ID /\ schema_ver = SCHEMA_VERSION - 1
\* DbSerializable::do_migration of such a type: the old blob is read and
\* converted into a value of the current schema
DoMigration(schema_id, schema_ver, blob) == Deserialize(blob) + NumValues

\* load_value with the unmigratable row always read as absent
LoadValueLenient(tbl, k, value_schema_id, is_migration_mandatory) ==
    IF k \in DOMAIN tbl
    THEN LET row == tbl[k]
         IN  IF row.schema_id = value_schema_id /\ SCHEMA_VERSION = row.schema_ver
             THEN [st |-> "ok", val |-> Some(Deserialize(row.value))]
             ELSE [st |-> "ok", val |-> None]
    ELSE [st |-> "ok", val |-> None]

\* KvsStoreQueries::load_value: [st, val] with val an Option<V>
LoadValue(tbl, k, value_schema_id, is_migration_mandatory) ==
    IF k \in DOMAIN tbl
    THEN LET row == tbl[k]
         IN  IF row.schema_id = value_schema_id /\ SCHEMA_VERSION = row.schema_ver
             THEN [st |-> "ok", val |-> Some(Deserialize(row.value))]
             ELSE IF CanMigrateFrom(row.schema_id, row.schema_ver)
             THEN [st |-> "ok",
                   val |-> Some(DoMigration(row.schema_id, row.schema_ver, row.value))]
             ELSE IF ~is_migration_mandatory
             THEN [st |-> "ok", val |-> None]
             ELSE [st |-> "err", val |-> None]
    ELSE [st |-> "ok", val |-> None]

\* BaseKvsStore::get_db
GetDb(tbl, k) == LoadValue(tbl, k, VALUE_ID, ~kvs_run.is_transient)

\* BaseKvsStore::get_0 run without interference: what get(k) returns now
Get0(c, tbl, k) ==
    IF IsSome(CheckCached(c, k))
    THEN [st |-> "ok", val |-> Unwrap(CheckCached(c, k))]
    ELSE GetDb(tbl, k)

(* ------------------------ BaseKvsStore: calls ------------------------ *)
MutKinds == {"get_mut", "try_get_mut"}
Calls ==
    {[kind |-> "get", k |-> k, v |-> DefaultValue] : k \in Keys}
    \cup {[kind |-> "set", k |-> k, v |-> v] : k \in Keys, v \in Values}
    \cup {[kind |-> "remove", k |-> k, v |-> DefaultValue] : k \in Keys}
    \cup {[kind |-> kd, k |-> k, v |-> DefaultValue] : kd \in MutKinds, k \in Keys}
NoCall == [kind |-> "none", k |-> 0, v |-> DefaultValue]
NoLocal == [loaded |-> None, ul_value |-> DefaultValue, wv |-> None]
NoRet == [st |-> "none", val |-> None]
Unknown == << >>

\* (a variant in which get takes the key lock like the others)
FirstPcLocking(kind) == IF kind = "try_get_mut" THEN "trylock" ELSE "lock"
\* first position of a call: get goes to the cache, the others to the lock
FirstPc(kind) ==
    CASE kind = "get" -> "check"
      [] kind = "try_get_mut" -> "trylock"
      [] OTHER -> "lock"
\* position after the key lock has been obtained
AfterLockPc(kind) ==
    CASE kind = "set" -> "store"
      [] kind = "remove" -> "delete"
      [] OTHER -> "check"

\* every call of the store, MaxCalls of them, on a PersistentKvsType store
FullRun ==
    [is_transient |-> IS_TRANSIENT,
     kinds |-> {"get", "set", "remove"} \cup MutKinds,
     budget |-> MaxCalls, migrates |-> FALSE]

\* a row an earlier build of the program wrote: same value type, the
\* schema version before the current one
OldRow(v) ==
    [value |-> Serialize(v), schema_id |-> VALUE_ID,
     schema_ver |-> SCHEMA_VERSION - 1]

\* the store as a start of the program finds it: cache and lock map are
\* new, no call is running
InitKvsTasks ==
    /\ locks = EmptyMap
    /\ guard = [t \in Tasks |-> 0]
    /\ cache = EmptyCache
    /\ pc = [t \in Tasks |-> "idle"]
    /\ op = [t \in Tasks |-> NoCall]
    /\ local = [t \in Tasks |-> NoLocal]
    /\ ret = [t \in Tasks |-> NoRet]
    /\ calls = 0
    /\ settled = [k \in Keys |-> Unknown]

InitKvs ==
    /\ kvs_run = FullRun
    /\ locks = EmptyMap
    /\ guard = [t \in Tasks |-> 0]
    /\ table = EmptyMap
    /\ cache = EmptyCache
    /\ pc = [t \in Tasks |-> "idle"]
    /\ op = [t \in Tasks |-> NoCall]
    /\ local = [t \in Tasks |-> NoLocal]
    /\ ret = [t \in Tasks |-> NoRet]
    /\ calls = 0
    /\ settled = [k \in Keys |-> Unknown]

\* a task calls get / set / remove / get_mut / try_get_mut
Call(t) ==
    /\ UNCHANGED nonkvs
    /\ pc[t] = "idle"
    /\ calls < kvs_run.budget
    /\ calls' = calls + 1
    /\ \E c \in Calls :
        /\ c.kind \in kvs_run.kinds
        /\ op' = [op EXCEPT ![t] = c]
        /\ pc' = [pc EXCEPT ![t] = FirstPc(c.kind)]
        /\ local' = [local EXCEPT ![t] =
                [NoLocal EXCEPT !.wv = IF c.kind = "set" THEN Some(c.v) ELSE None]]
    /\ UNCHANGED << locks, guard, table, cache, ret, settled >>

\* self.lock_set.lock(k).await: one poll of WaitForLockSetFut
LockPoll(t) ==
    /\ UNCHANGED nonkvs
    /\ pc[t] = "lock"
    /\ locks' = PollMap(locks, op[t].k, t)
    /\ IF EntryIsEmpty(locks, op[t].k)
       THEN /\ guard' = [guard EXCEPT ![t] = op[t].k]
            /\ pc' = [pc EXCEPT ![t] = AfterLockPc(op[t].kind)]
       ELSE /\ guard' = guard
            /\ pc' = [pc EXCEPT ![t] = "wait"]
    /\ UNCHANGED << table, cache, op, local, ret, settled, calls >>

\* self.lock_set.try_lock(k) in try_get_mut
TryLock(t) ==
    /\ UNCHANGED nonkvs
    /\ pc[t] = "trylock"
    /\ locks' = TryLockMap(locks, op[t].k)
    /\ IF EntryIsEmpty(locks, op[t].k)
       THEN /\ guard' = [guard EXCEPT ![t] = op[t].k]
            /\ pc' = [pc EXCEPT ![t] = "check"]
            /\ ret' = ret
       ELSE /\ guard' = guard
            /\ pc' = [pc EXCEPT ![t] = "done"]
            /\ ret' = [ret EXCEPT ![t] = [st |-> "unavailable", val |-> None]]
    /\ UNCHANGED << table, cache, op, local, settled, calls >>

\* Drop for LockSetGuard of task t, then t goes to okpc (or panics)
DropGuard(t, okpc) ==
    /\ locks' = IF DropPanics(locks, guard[t]) THEN locks
                ELSE DropMap(locks, guard[t])
    /\ guard' = [guard EXCEPT ![t] = 0]
    /\ pc' = [u \in Tasks |->
                IF u = t
                THEN (IF DropPanics(locks, guard[t]) THEN "panicked" ELSE okpc)
                ELSE IF u \in DropWakes(locks, guard[t]) /\ pc[u] = "wait"
                THEN "lock" ELSE pc[u]]

\* the value a KvsMutGuard starts with: the loaded one or make_default()
GuardValue(loaded) == IF IsSome(loaded) THEN Unwrap(loaded) ELSE DefaultValue

\* cached_async that runs the future whatever check_cached finds
CheckIgnored(t) ==
    /\ UNCHANGED nonkvs
    /\ pc[t] = "check"
    /\ pc' = [pc EXCEPT ![t] = "load"]
    /\ UNCHANGED << local, ret >>
    /\ UNCHANGED << locks, guard, table, cache, op, settled, calls >>

\* cached_async, first half: check_cached
Check(t) ==
    /\ UNCHANGED nonkvs
    /\ pc[t] = "check"
    /\ LET hit == CheckCached(cache, op[t].k)
       IN  IF IsSome(hit)
           THEN IF op[t].kind = "get"
                THEN /\ pc' = [pc EXCEPT ![t] = "done"]
                     /\ ret' = [ret EXCEPT ![t] = [st |-> "ok", val |-> Unwrap(hit)]]
                     /\ local' = local
                ELSE /\ pc' = [pc EXCEPT ![t] = "guard"]
                     /\ local' = [local EXCEPT ![t].loaded = Unwrap(hit),
                                               ![t].ul_value = GuardValue(Unwrap(hit))]
                     /\ ret' = ret
           ELSE /\ pc' = [pc EXCEPT ![t] = "load"]
                /\ UNCHANGED << local, ret >>
    /\ UNCHANGED << locks, guard, table, cache, op, settled, calls >>

\* cached_async, the future: get_db reads the row
Load(t) ==
    /\ UNCHANGED nonkvs
    /\ pc[t] = "load"
    /\ LET r == GetDb(table, op[t].k)
       IN  IF r.st = "ok"
           THEN /\ local' = [local EXCEPT ![t].loaded = r.val]
                /\ pc' = [pc EXCEPT ![t] = "fill"]
                /\ UNCHANGED << locks, guard, ret >>
           ELSE /\ ret' = [ret EXCEPT ![t] = [st |-> "err", val |-> None]]
                /\ local' = local
                /\ IF guard[t] # 0 THEN DropGuard(t, "done")
                   ELSE /\ pc' = [pc EXCEPT ![t] = "done"]
                        /\ UNCHANGED << locks, guard >>
    /\ UNCHANGED << table, cache, op, settled, calls >>

\* cached_async, second half: insert_cache(key, value, false), then the
\* caller gets the value (get) or the KvsMutGuard is built (get_mut_0)
Fill(t) ==
    /\ UNCHANGED nonkvs
    /\ pc[t] = "fill"
    /\ \E victim \in Lines :
        cache' = TryInsertLoop(cache, op[t].k, local[t].loaded, FALSE, victim)
    /\ IF op[t].kind = "get"
       THEN /\ pc' = [pc EXCEPT ![t] = "done"]
            /\ ret' = [ret EXCEPT ![t] = [st |-> "ok", val |-> local[t].loaded]]
            /\ local' = local
       ELSE /\ pc' = [pc EXCEPT ![t] = "guard"]
            /\ local' = [local EXCEPT ![t].ul_value = GuardValue(local[t].loaded)]
            /\ ret' = ret
    /\ UNCHANGED << locks, guard, table, op, settled, calls >>

\* set_0, first half: store_value
StoreValue(t) ==
    /\ UNCHANGED nonkvs
    /\ pc[t] = "store"
    /\ table' = MapPut(table, op[t].k, StoredRow(Unwrap(local[t].wv), VALUE_ID))
    /\ pc' = [pc EXCEPT ![t] = "finish"]
    /\ settled' = [settled EXCEPT ![op[t].k] = Unknown]
    /\ UNCHANGED << locks, guard, cache, op, local, ret, calls >>

\* remove_0, first half: delete_value
DeleteValue(t) ==
    /\ UNCHANGED nonkvs
    /\ pc[t] = "delete"
    /\ table' = MapDel(table, op[t].k)
    /\ pc' = [pc EXCEPT ![t] = "finish"]
    /\ settled' = [settled EXCEPT ![op[t].k] = Unknown]
    /\ UNCHANGED << locks, guard, cache, op, local, ret, calls >>

\* set_0 / remove_0, second half: cache.insert(k, wv); the call returns
\* and the LockSetGuard it owns is dropped
Finish(t) ==
    /\ UNCHANGED nonkvs
    /\ pc[t] = "finish"
    /\ \E victim \in Lines :
        cache' = TryInsertLoop(cache, op[t].k, local[t].wv, TRUE, victim)
    /\ DropGuard(t, "done")
    /\ ret' = [ret EXCEPT ![t] =
            [st |-> IF DropPanics(locks, guard[t]) THEN "panic" ELSE "ok",
             val |-> None]]
    /\ settled' = [settled EXCEPT ![op[t].k] =
            IF DropPanics(locks, guard[t]) THEN Unknown
            ELSE Some([by |-> op[t].kind, val |-> local[t].wv])]
    /\ UNCHANGED << table, op, local, calls >>

\* DerefMut for KvsMutGuard: the holder changes the in-memory value
GuardMutate(t) ==
    /\ UNCHANGED nonkvs
    /\ pc[t] = "guard"
    /\ \E v \in Values \cup {DefaultValue} :
        /\ v # local[t].ul_value
        /\ local' = [local EXCEPT ![t].ul_value = v]
    /\ UNCHANGED << locks, guard, table, cache, pc, op, ret, settled, calls >>

\* KvsMutGuard::commit: set_0(ul_key, ul_value) starts
GuardCommit(t) ==
    /\ UNCHANGED nonkvs
    /\ pc[t] = "guard"
    /\ local' = [local EXCEPT ![t].wv = Some(local[t].ul_value)]
    /\ pc' = [pc EXCEPT ![t] = "store"]
    /\ UNCHANGED << locks, guard, table, cache, op, ret, settled, calls >>

\* KvsMutGuard::remove: remove_0(ul_key) starts
GuardRemove(t) ==
    /\ UNCHANGED nonkvs
    /\ pc[t] = "guard"
    /\ local' = [local EXCEPT ![t].wv = None]
    /\ pc' = [pc EXCEPT ![t] = "delete"]
    /\ UNCHANGED << locks, guard, table, cache, op, ret, settled, calls >>

\* the KvsMutGuard is dropped without commit() or remove()
GuardDrop(t) ==
    /\ UNCHANGED nonkvs
    /\ pc[t] = "guard"
    /\ DropGuard(t, "done")
    /\ ret' = [ret EXCEPT ![t] =
            [st |-> IF DropPanics(locks, guard[t]) THEN "panic" ELSE "dropped",
             val |-> None]]
    /\ UNCHANGED << table, cache, op, local, settled, calls >>

\* the caller takes the result; the frame of the call is gone
Return(t) ==
    /\ UNCHANGED nonkvs
    /\ pc[t] = "done"
    /\ pc' = [pc EXCEPT ![t] = "idle"]
    /\ op' = [op EXCEPT ![t] = NoCall]
    /\ local' = [local EXCEPT ![t] = NoLocal]
    /\ ret' = [ret EXCEPT ![t] = NoRet]
    /\ UNCHANGED << locks, guard, table, cache, settled, calls >>

KvsNext ==
    \E t \in Tasks :
        \/ Call(t)
        \/ Return(t)
        \/ LockPoll(t)
        \/ TryLock(t)
        \/ Check(t)
        \/ Load(t)
        \/ Fill(t)
        \/ StoreValue(t)
        \/ DeleteValue(t)
        \/ Finish(t)
        \/ GuardMutate(t)
        \/ GuardCommit(t)
        \/ GuardRemove(t)
        \/ GuardDrop(t)

(* --------------------------- InternerHive ---------------------------- *)
\* the values handed to intern are drawn from the same small set as keys
InternValues == Keys
NoTask == [pc |-> "idle", value |-> 0, id |-> 0, guard |-> 0,
           ret |-> [st |-> "none", id |-> 0]]

\* SELECT int_id FROM sylphie_db_interner WHERE hive = ? AND name = ?,
\* then result.unwrap_or(0); with several rows any of them may be returned
SelectIds(tbl, v) ==
    IF \E r \in tbl : r.name = v THEN {r.int_id : r \in {x \in tbl : x.name = v}}
    ELSE {0}

\* the rows the hive finds at startup: none, or one left by an earlier run
\* (for the first value, under any id up to MaxStartId)
StartHives ==
    {{}} \cup {{[name |-> 1, int_id |-> i]} : i \in 1..MaxStartId}
\* a startup that counts from 1 whatever the table holds
MaxIntIdIgnored(tbl) == 0
\* SELECT MAX(int_id) ... .flatten().unwrap_or(0)
MaxIntId(tbl) ==
    IF tbl = {} THEN 0
    ELSE CHOOSE i \in {r.int_id : r \in tbl} : \A r \in tbl : r.int_id <= i
\* InternerHive::from_db
InitIntern ==
    /\ hive_table \in StartHives
    /\ hive_cache = EmptyCache
    /\ new_value_lock = EmptyMap
    /\ max_value = MaxIntId(hive_table) + 1
    /\ itask = [t \in Tasks |-> NoTask]
    /\ icalls = 0
    /\ allocated = [v \in InternValues |-> {}]
    /\ returned = [v \in InternValues |-> {}]

\* a task calls intern(conn, value)
InternCall(t) ==
    /\ UNCHANGED nonintern
    /\ itask[t].pc = "idle"
    /\ icalls < ibudget
    /\ icalls' = icalls + 1
    /\ \E v \in InternValues :
        itask' = [itask EXCEPT ![t] = [NoTask EXCEPT !.pc = "q1check", !.value = v]]
    /\ UNCHANGED << hive_table, hive_cache, new_value_lock, max_value,
                    allocated, returned >>

\* Drop for the LockSetGuard of new_value_lock owned by task t
InternDropGuard(t, rec) ==
    /\ new_value_lock' =
            IF DropPanics(new_value_lock, itask[t].guard) THEN new_value_lock
            ELSE DropMap(new_value_lock, itask[t].guard)
    /\ itask' = [u \in Tasks |->
            IF u = t
            THEN (IF DropPanics(new_value_lock, itask[t].guard)
                  THEN [rec EXCEPT !.pc = "panicked", !.guard = 0,
                                   !.ret = [st |-> "panic", id |-> 0]]
                  ELSE [rec EXCEPT !.guard = 0])
            ELSE IF u \in DropWakes(new_value_lock, itask[t].guard)
                    /\ itask[u].pc = "wait"
            THEN [itask[u] EXCEPT !.pc = "lock"] ELSE itask[u]]

\* intern() once intern_query has produced id: the first lookup goes on to
\* the lock when id = 0, the re-check under the lock takes a fresh id from
\* max_value (fetch_add) when it still sees 0
AfterQuery(t, id) ==
    IF itask[t].guard = 0
    THEN /\ itask' = [itask EXCEPT ![t] =
                IF id = 0 THEN [@ EXCEPT !.pc = "lock"]
                ELSE [@ EXCEPT !.pc = "done", !.ret = [st |-> "ok", id |-> id]]]
         /\ returned' = IF id = 0 THEN returned
                        ELSE [returned EXCEPT ![itask[t].value] = @ \cup {id}]
         /\ UNCHANGED << new_value_lock, max_value, allocated >>
    ELSE IF id # 0
    THEN /\ InternDropGuard(t, [itask[t] EXCEPT !.pc = "done",
                                    !.ret = [st |-> "ok", id |-> id]])
         /\ returned' = IF DropPanics(new_value_lock, itask[t].guard) THEN returned
                        ELSE [returned EXCEPT ![itask[t].value] = @ \cup {id}]
         /\ UNCHANGED << max_value, allocated >>
    ELSE /\ itask' = [itask EXCEPT ![t].pc = "insert", ![t].id = max_value]
         /\ max_value' = max_value + 1
         /\ allocated' = [allocated EXCEPT ![itask[t].value] = @ \cup {max_value}]
         /\ UNCHANGED << new_value_lock, returned >>

\* intern_query, first half: cached_async finds the value in the cache
InternCheck(t) ==
    /\ UNCHANGED nonintern
    /\ itask[t].pc \in {"q1check", "q2check"}
    /\ LET hit == CheckCached(hive_cache, itask[t].value)
       IN  IF IsSome(hit) THEN AfterQuery(t, Unwrap(hit))
           ELSE /\ itask' = [itask EXCEPT ![t].pc = "load"]
                /\ UNCHANGED << new_value_lock, max_value, allocated, returned >>
    /\ UNCHANGED << hive_table, hive_cache, icalls >>

\* intern_query, the future: the SELECT
InternLoad(t) ==
    /\ UNCHANGED nonintern
    /\ itask[t].pc = "load"
    /\ \E id \in SelectIds(hive_table, itask[t].value) :
        itask' = [itask EXCEPT ![t].pc = "fill", ![t].id = id]
    /\ UNCHANGED << hive_table, hive_cache, new_value_lock, max_value, icalls,
                    allocated, returned >>

\* intern_query, second half: insert_cache(value, id, false)
InternFill(t) ==
    /\ UNCHANGED nonintern
    /\ itask[t].pc = "fill"
    /\ \E victim \in Lines :
        hive_cache' = TryInsertLoop(hive_cache, itask[t].value, itask[t].id,
                                    FALSE, victim)
    /\ AfterQuery(t, itask[t].id)
    /\ UNCHANGED << hive_table, icalls >>

\* self.new_value_lock.lock(value).await: one poll
InternLock(t) ==
    /\ UNCHANGED nonintern
    /\ itask[t].pc = "lock"
    /\ new_value_lock' = PollMap(new_value_lock, itask[t].value, t)
    /\ itask' = [itask EXCEPT ![t] =
            IF EntryIsEmpty(new_value_lock, itask[t].value)
            THEN [@ EXCEPT !.pc = "q2check", !.guard = itask[t].value]
            ELSE [@ EXCEPT !.pc = "wait"]]
    /\ UNCHANGED << hive_table, hive_cache, max_value, icalls, allocated, returned >>

\* INSERT INTO sylphie_db_interner (hive, name, int_id): with a row for the
\* name already there the statement either fails on the table's uniqueness
\* constraint (the call returns Err, the guard is dropped) or adds a row
InsertFails(tbl, v) == \E r \in tbl : r.name = v
InternInsert(t) ==
    /\ UNCHANGED nonintern
    /\ itask[t].pc = "insert"
    /\ \/ /\ hive_table' = hive_table
                   \cup {[name |-> itask[t].value, int_id |-> itask[t].id]}
          /\ itask' = [itask EXCEPT ![t].pc = "finish"]
          /\ UNCHANGED new_value_lock
       \/ /\ InsertFails(hive_table, itask[t].value)
          /\ hive_table' = hive_table
          /\ InternDropGuard(t, [itask[t] EXCEPT !.pc = "done",
                                     !.ret = [st |-> "err", id |-> 0]])
    /\ UNCHANGED << hive_cache, max_value, icalls, allocated, returned >>

\* self.cache.insert(value, new_id); Ok(new_id); the guard is dropped
InternFinish(t) ==
    /\ UNCHANGED nonintern
    /\ itask[t].pc = "finish"
    /\ \E victim \in Lines :
        hive_cache' = TryInsertLoop(hive_cache, itask[t].value, itask[t].id,
                                    TRUE, victim)
    /\ InternDropGuard(t, [itask[t] EXCEPT !.pc = "done",
                               !.ret = [st |-> "ok", id |-> itask[t].id]])
    /\ returned' = IF DropPanics(new_value_lock, itask[t].guard) THEN returned
                   ELSE [returned EXCEPT ![itask[t].value] = @ \cup {itask[t].id}]
    /\ UNCHANGED << hive_table, max_value, icalls, allocated >>

\* the caller takes the result
InternReturn(t) ==
    /\ UNCHANGED nonintern
    /\ itask[t].pc = "done"
    /\ itask' = [itask EXCEPT ![t] = NoTask]
    /\ UNCHANGED << hive_table, hive_cache, new_value_lock, max_value, icalls,
                    allocated, returned >>

\* SELECT name FROM sylphie_db_interner WHERE hive = ? AND int_id = ?
SelectNames(tbl, id) == {r.name : r \in {x \in tbl : x.int_id = id}}
InitRev ==
    /\ rev_cache = EmptyCache
    /\ resolved = {}
\* InternerHive::rev_intern for an id some intern call has returned:
\* rev_cache.cached_async around the SELECT (no row is an error)
RevIntern ==
    /\ icalls < ibudget
    /\ icalls' = icalls + 1
    /\ UNCHANGED << kvsvars, migvars, connvars, lruvars, ibudget, regvars, cfgvars, singvars >>
    /\ UNCHANGED << hive_table, hive_cache, new_value_lock, max_value, itask,
                    allocated, returned >>
    /\ \E v \in InternValues : \E id \in returned[v] :
        LET hit == CheckCached(rev_cache, id) IN
        IF IsSome(hit)
        THEN /\ resolved' = resolved \cup {[int_id |-> id, name |-> Unwrap(hit)]}
             /\ rev_cache' = rev_cache
        ELSE IF SelectNames(hive_table, id) = {}
        THEN UNCHANGED << rev_cache, resolved >>
        ELSE \E name \in SelectNames(hive_table, id) : \E victim \in Lines :
                /\ rev_cache' = TryInsertLoop(rev_cache, id, name, FALSE, victim)
                /\ resolved' = resolved \cup {[int_id |-> id, name |-> name]}

\* what intern(v), run now with no other call in progress, returns: a
\* cached id other than 0, else (a cached 0, or no row) the fresh id taken
\* from max_value, else the id of a row
InternAlone(c, tbl, next_id, v) ==
    LET hit == CheckCached(c, v) IN
    IF IsSome(hit) THEN (IF Unwrap(hit) # 0 THEN {Unwrap(hit)} ELSE {next_id})
    ELSE IF SelectIds(tbl, v) = {0} THEN {next_id}
    ELSE SelectIds(tbl, v)
\* what rev_intern(id), run now, returns
\* the ids of the rows of a name
SelectNamesIds(tbl, v) == {r.int_id : r \in {x \in tbl : x.name = v}}
RevInternAlone(c, tbl, id) ==
    LET hit == CheckCached(c, id) IN
    IF IsSome(hit) THEN {Unwrap(hit)} ELSE SelectNames(tbl, id)

InternNext ==
    \/ RevIntern
    \/ \E t \in Tasks :
        \/ InternCall(t)
        \/ InternCheck(t)
        \/ InternLoad(t)
        \/ InternFill(t)
        \/ InternLock(t)
        \/ InternInsert(t)
        \/ InternFinish(t)
        \/ InternReturn(t)

(* ------------------------- migration runner -------------------------- *)
Versions == 0..MaxVersion
\* MigrationScriptData: [from, to], a script leading to another version
Scripts == {x \in [from : Versions, to : Versions] : x.from # x.to}
ScriptLists == UNION {[1..n -> Scripts] : n \in 0..MaxScripts}
\* the migration_id of the one migration set that is executed
MIGRATION_ID == 1
\* MigrationData descriptors a program can declare
Migrations ==
    [migration_id : {MIGRATION_ID}, target_version : Versions, scripts : ScriptLists]
NoMigration == [migration_id |-> 0, target_version |-> 0, scripts |-> << >>]

\* the part of the database a transaction covers: tracked versions and the
\* effects of the scripts, in the order they were applied
DbContent(db) == [tracking |-> db.tracking, schema |-> db.schema]
NoMig ==
    [pc |-> "idle", migration |-> NoMigration, idx |-> 0, start_version |-> 0,
     current_version |-> 0, result |-> "none", failed |-> FALSE, ran |-> 0,
     warned |-> "none", pre |-> [tracking |-> EmptyMap, schema |-> << >>]]

\* transaction_with_type(Exclusive): the transaction works on its own view
TxBegin(db) == DbContent(db)
\* transaction.commit(): the view becomes the committed content
TxCommit(db, tx) == [db EXCEPT !.tracking = tx.tracking, !.schema = tx.schema]
\* the transaction is dropped without commit: its view is rolled back
TxRollback(db, tx) == db

\* (a variant that never finds the tracked version)
QueryVersionLost(tx, id) == 0
\* query_migrations_table_sql(...).unwrap_or(0)
QueryVersion(tx, id) == IF id \in DOMAIN tx.tracking THEN tx.tracking[id] ELSE 0
\* transaction.execute_batch(script.script_data): a failing batch has run in part
RunBatch(tx, script, ok) ==
    [tx EXCEPT !.schema = Append(@, [from |-> script.from, to |-> script.to,
                                     whole |-> ok])]
\* (a variant that leaves the tracked version as it was)
ReplaceVersionSkipped(tx, id, to, ok) == tx
\* transaction.execute(replace_migrations_table_sql(...), (migration_id, to))
ReplaceVersion(tx, id, to, ok) ==
    IF ok THEN [tx EXCEPT !.tracking = MapPut(@, id, to)] ELSE tx
\* (a variant that drops the Result of the SQL call and goes on)
PropagatesIgnored(ok) == FALSE
\* the `?` after a SQL call: a failed call ends execute_migration with Err
Propagates(ok) == ~ok
\* (a variant that commits whatever version the pass ended on)
TargetReachedAlways(target_version, current_version) == TRUE
\* `if migration.target_version != current_version { bail!(..) }`
TargetReached(target_version, current_version) == target_version = current_version
\* the check of repeat_transaction_watch, which only logs
WatchCheck(watch, m) ==
    IF m.migration_id \in DOMAIN watch
    THEN (IF watch[m.migration_id] = m THEN "repeat" ELSE "conflict")
    ELSE "none"

\* a database no migration has touched
NewDb == [has_tracking |-> FALSE, tracking |-> EmptyMap, schema |-> << >>]
\* the database is new, or an earlier run has left a tracked version
StartDbs ==
    {NewDb} \cup {[has_tracking |-> TRUE, schema |-> << >>,
                    tracking |-> MapPut(EmptyMap, MIGRATION_ID, v)] : v \in Versions}
InitMig ==
    /\ mig_db \in StartDbs
    /\ mig_tx = None
    /\ mig_state = [tables_created |-> FALSE, repeat_transaction_watch |-> EmptyMap]
    /\ mig = NoMig
    /\ mcalls = 0
    /\ static_migration \in Migrations
    /\ mbudget = MaxExecs

\* descriptors whose scripts are an ascending, contiguous chain that ends
\* at target_version (from version 0 or from a later version)
ChainToTarget(m) ==
    /\ \A i \in 1..Len(m.scripts) : m.scripts[i].from < m.scripts[i].to
    /\ \A i \in 1..(Len(m.scripts) - 1) : m.scripts[i].to = m.scripts[i + 1].from
    /\ Len(m.scripts) > 0 => m.scripts[Len(m.scripts)].to = m.target_version
ChainMigrations == {m \in Migrations : ChainToTarget(m)}
\* the same descriptor executed MaxRepeats times in one process
InitMigRepeat ==
    /\ mig_db \in StartDbs
    /\ mig_tx = None
    /\ mig_state = [tables_created |-> FALSE, repeat_transaction_watch |-> EmptyMap]
    /\ mig = NoMig
    /\ mcalls = 0
    /\ static_migration \in ChainMigrations
    /\ mbudget = MaxRepeats

\* MigrationManager::execute_migration_sync(migration) is called
MigCall ==
    /\ UNCHANGED nonmig
    /\ mig.pc = "idle"
    /\ mcalls < mbudget
    /\ mcalls' = mcalls + 1
    /\ mig' = [NoMig EXCEPT !.pc = "begin", !.migration = static_migration,
                             !.pre = DbContent(mig_db)]
    /\ UNCHANGED << mig_db, mig_tx, mig_state, static_migration, mbudget >>

\* create_migrations_table, the watch check, BEGIN EXCLUSIVE and the query
\* of the tracked version
MigBegin ==
    /\ UNCHANGED nonmig
    /\ mig.pc = "begin"
    /\ mig_db' = IF mig_state.tables_created THEN mig_db
                 ELSE [mig_db EXCEPT !.has_tracking = TRUE]
    /\ mig_state' = [mig_state EXCEPT !.tables_created = TRUE]
    /\ mig_tx' = Some(TxBegin(mig_db))
    /\ mig' = [mig EXCEPT
                !.pc = "scripts", !.idx = 1,
                !.warned = WatchCheck(mig_state.repeat_transaction_watch, mig.migration),
                !.start_version = QueryVersion(TxBegin(mig_db), mig.migration.migration_id),
                !.current_version = QueryVersion(TxBegin(mig_db), mig.migration.migration_id)]
    /\ UNCHANGED << mcalls, static_migration, mbudget >>

\* execute_migration returns Err: the transaction is dropped on the way out
MigBail(failed) ==
    /\ mig_db' = TxRollback(mig_db, Unwrap(mig_tx))
    /\ mig_tx' = None
    /\ mig' = [mig EXCEPT !.pc = "done", !.result = "err", !.failed = failed]

\* one turn of `for script in migration.scripts`
MigScript ==
    /\ UNCHANGED nonmig
    /\ mig.pc = "scripts"
    /\ mig.idx <= Len(mig.migration.scripts)
    /\ LET script == mig.migration.scripts[mig.idx]
           id == mig.migration.migration_id
       IN  IF mig.current_version = script.from
           THEN \E batch_ok, replace_ok \in BOOLEAN :
                LET tx1 == RunBatch(Unwrap(mig_tx), script, batch_ok)
                    tx2 == ReplaceVersion(tx1, id, script.to, replace_ok)
                IN  IF Propagates(batch_ok)
                    THEN /\ replace_ok
                         /\ MigBail(TRUE)
                    ELSE IF Propagates(replace_ok)
                    THEN MigBail(TRUE)
                    ELSE /\ mig_tx' = Some(tx2)
                         /\ mig' = [mig EXCEPT !.idx = @ + 1, !.ran = @ + 1,
                                        !.current_version = script.to,
                                        !.failed = @ \/ ~batch_ok \/ ~replace_ok]
                         /\ mig_db' = mig_db
           ELSE /\ mig' = [mig EXCEPT !.idx = @ + 1]
                /\ UNCHANGED << mig_db, mig_tx >>
    /\ UNCHANGED << mig_state, mcalls, static_migration, mbudget >>

\* after the loop: bail unless the target version was reached, else commit
\* and remember the descriptor in repeat_transaction_watch
MigFinish ==
    /\ UNCHANGED nonmig
    /\ mig.pc = "scripts"
    /\ mig.idx > Len(mig.migration.scripts)
    /\ IF ~TargetReached(mig.migration.target_version, mig.current_version)
       THEN /\ MigBail(mig.failed)
            /\ mig_state' = mig_state
       ELSE /\ mig_db' = TxCommit(mig_db, Unwrap(mig_tx))
            /\ mig_tx' = None
            /\ mig_state' = [mig_state EXCEPT !.repeat_transaction_watch =
                    MapPut(@, mig.migration.migration_id, mig.migration)]
            /\ mig' = [mig EXCEPT !.pc = "done", !.result = "ok"]
    /\ UNCHANGED << mcalls, static_migration, mbudget >>

\* the caller takes the result
MigReturn ==
    /\ UNCHANGED nonmig
    /\ mig.pc = "done"
    /\ mig' = NoMig
    /\ UNCHANGED << mig_db, mig_tx, mig_state, mcalls, static_migration, mbudget >>

MigNext == MigCall \/ MigBegin \/ MigScript \/ MigFinish \/ MigReturn

(* -------------------------- connection pool -------------------------- *)
Slots == 1..PoolSize
\* BlockingWrapper<Connection>: None, or Some of the SQLite handle, of which
\* the model keeps whether it is inside a transaction
LiveConn(in_tx) == Some([in_tx |-> in_tx])
FreeSlot == [st |-> "free", w |-> None]
\* ConnectionManager::has_broken
HasBroken(conn) == IsSome(conn)

\* DbOpsData as Database::connect builds it
NewDbOpsData(conn_handle, conn) ==
    [conn_handle |-> Some(conn_handle), conn |-> conn,
     is_begin_transaction |-> FALSE, is_begin_commit |-> FALSE,
     is_in_transaction |-> FALSE, is_dead |-> FALSE]
NoHandle == [live |-> FALSE, ops |-> None]

\* what the drop paths act on: the pool, the side closures and the history
World == [pool |-> pool, side |-> side, hist |-> conn_hist]
NoConnHist ==
    [has_broken |-> None, released_in_tx |-> FALSE, drop_panic |-> FALSE,
     assert_failed |-> FALSE, handed_empty |-> FALSE, tx_dropped_open |-> FALSE,
     rolled_back |-> FALSE]

\* the PooledConnection of slot s is dropped: the pool asks has_broken and
\* discards a wrapper reported broken, else keeps it for a later get()
PoolPutBack(w, s) ==
    LET conn == w.pool[s].w IN
    [w EXCEPT
        !.pool[s] = IF HasBroken(conn) THEN FreeSlot
                    ELSE [st |-> "idle", w |-> conn],
        !.hist.has_broken = Some([had_handle |-> IsSome(conn),
                                  reported |-> HasBroken(conn)]),
        !.hist.released_in_tx = @ \/ (IsSome(conn) /\ Unwrap(conn).in_tx)]
\* Pool::get: the slots get() can answer from, an idle one or a free one
\* for which ConnectionManager::connect opens a new handle
PoolGettable(p) == {s \in Slots : p[s].st \in {"idle", "free"}}
PoolGet(p, s) ==
    [p EXCEPT ![s] = [st |-> "out",
                      w |-> IF p[s].st = "idle" THEN p[s].w ELSE LiveConn(FALSE)]]

\* rusqlite execute_batch of one statement on a handle: [conn, ok]
Statements == {"BEGIN", "COMMIT", "ROLLBACK", "SQL"}
SqliteAccepts(c, stmt) ==
    CASE stmt = "BEGIN" -> ~c.in_tx
      [] stmt \in {"COMMIT", "ROLLBACK"} -> c.in_tx
      [] OTHER -> TRUE
SqliteRun(c, stmt) ==
    CASE stmt = "BEGIN" -> [c EXCEPT !.in_tx = TRUE]
      [] stmt \in {"COMMIT", "ROLLBACK"} -> [c EXCEPT !.in_tx = FALSE]
      [] OTHER -> c
\* DbOpsData::execute_batch: self.conn.get()?.execute_batch(&sql)?
ExecuteBatch(d, stmt, sql_ok) ==
    IF IsSome(d.conn) /\ sql_ok /\ SqliteAccepts(Unwrap(d.conn), stmt)
    THEN [d |-> [d EXCEPT !.conn = Some(SqliteRun(Unwrap(d.conn), stmt))], ok |-> TRUE]
    ELSE [d |-> d, ok |-> FALSE]

\* DbOpsData::begin_transaction: [d, ok, panic]
BeginTransaction(d, sql_ok) ==
    IF d.is_in_transaction
    THEN [d |-> d, ok |-> FALSE, panic |-> TRUE]
    ELSE LET r == ExecuteBatch([d EXCEPT !.is_begin_transaction = TRUE],
                               "BEGIN", sql_ok)
         IN  IF r.ok
             THEN [d |-> [r.d EXCEPT !.is_in_transaction = TRUE,
                                     !.is_begin_transaction = FALSE],
                   ok |-> TRUE, panic |-> FALSE]
             ELSE [d |-> r.d, ok |-> FALSE, panic |-> FALSE]
\* DbOpsData::commit_transaction / rollback_transaction: [d, ok, panic]
EndTransaction(d, stmt, sql_ok) ==
    IF ~d.is_in_transaction
    THEN [d |-> d, ok |-> FALSE, panic |-> TRUE]
    ELSE LET r == ExecuteBatch([d EXCEPT !.is_begin_commit = TRUE], stmt, sql_ok)
         IN  IF r.ok
             THEN [d |-> [r.d EXCEPT !.is_in_transaction = FALSE,
                                     !.is_begin_commit = FALSE],
                   ok |-> TRUE, panic |-> FALSE]
             ELSE [d |-> r.d, ok |-> FALSE, panic |-> FALSE]
CommitTransaction(d, sql_ok) == EndTransaction(d, "COMMIT", sql_ok)
RollbackTransaction(d, sql_ok) == EndTransaction(d, "ROLLBACK", sql_ok)
\* the closure of a DbOps SQL call (execute, query_row, ...): [d, ok, panic]
PlainSql(d, sql_ok) ==
    LET r == ExecuteBatch(d, "SQL", sql_ok)
    IN  [d |-> r.d, ok |-> r.ok, panic |-> FALSE]

\* (a variant that gives the connection back without the ROLLBACK)
RollbackInDropSkipped(w, d) ==
    IF ~IsSome(d.conn_handle)
    THEN [w |-> w, d |-> [d EXCEPT !.is_dead = TRUE], panic |-> TRUE]
    ELSE [w |-> PoolPutBack([w EXCEPT !.pool[Unwrap(d.conn_handle)].w = d.conn],
                            Unwrap(d.conn_handle)),
          d |-> [d EXCEPT !.is_dead = TRUE, !.conn_handle = None, !.conn = None],
          panic |-> FALSE]
\* DbOpsData::rollback_in_drop: [w, d, panic]; the handle and the connection
\* move into a closure for the blocking pool
RollbackInDrop(w, d) ==
    IF ~IsSome(d.conn_handle)
    THEN [w |-> w, d |-> [d EXCEPT !.is_dead = TRUE], panic |-> TRUE]
    ELSE [w |-> [w EXCEPT !.side = @ \cup {[conn_handle |-> Unwrap(d.conn_handle),
                                             conn |-> d.conn]}],
          d |-> [d EXCEPT !.is_dead = TRUE, !.conn_handle = None, !.conn = None],
          panic |-> FALSE]
\* DbOpsData::transaction_dropped
TransactionDropped(w, d) ==
    IF d.is_in_transaction THEN RollbackInDrop(w, d)
    ELSE [w |-> w, d |-> d, panic |-> FALSE]
\* Drop for DbOpsData, then the drop of its fields conn_handle and conn
DropDbOpsData(w, d) ==
    IF d.is_dead THEN w
    ELSE IF d.is_begin_commit \/ d.is_begin_transaction
    THEN IF ~IsSome(d.conn_handle)
         THEN [w EXCEPT !.hist.drop_panic = TRUE]
         ELSE PoolPutBack([w EXCEPT !.pool[Unwrap(d.conn_handle)].w = None],
                          Unwrap(d.conn_handle))
    ELSE IF d.is_in_transaction
    THEN LET r == RollbackInDrop(w, d)
         IN  IF r.panic THEN [r.w EXCEPT !.hist.drop_panic = TRUE] ELSE r.w
    ELSE IF IsSome(d.conn_handle)
    THEN PoolPutBack([w EXCEPT !.pool[Unwrap(d.conn_handle)].w = d.conn],
                     Unwrap(d.conn_handle))
    ELSE w
\* drop of a BlockingWrapper<DbOpsData>
DropOps(w, ops) == IF IsSome(ops) THEN DropDbOpsData(w, Unwrap(ops)) ELSE w

\* Drop for DbTransaction: [w, parent_ops, panic]
DropDbTransaction(w, ops, parent_ops) ==
    IF ~IsSome(ops)
    THEN [w |-> [w EXCEPT !.hist.drop_panic = TRUE],
          parent_ops |-> parent_ops, panic |-> TRUE]
    ELSE LET r == TransactionDropped(w, Unwrap(ops))
             h == [r.w EXCEPT !.hist.tx_dropped_open =
                                   @ \/ Unwrap(ops).is_in_transaction,
                              !.hist.drop_panic = @ \/ r.panic]
         IN  [w |-> h, parent_ops |-> IF r.panic THEN parent_ops ELSE Some(r.d),
              panic |-> r.panic]

InitConn ==
    /\ pool = [s \in Slots |-> FreeSlot]
    /\ dbc = NoHandle
    /\ dbt = NoHandle
    /\ job = None
    /\ side = {}
    /\ cpc = "idle"
    /\ cops = 0
    /\ conn_hist = NoConnHist
ApplyWorld(w) == pool' = w.pool /\ side' = w.side /\ conn_hist' = w.hist

\* Database::connect
Connect ==
    /\ UNCHANGED nonconn
    /\ cpc = "idle" /\ ~dbc.live /\ cops < MaxConnOps
    /\ \E s \in PoolGettable(pool) :
        LET got == PoolGet(pool, s)
            conn == got[s].w
        IN  /\ pool' = [got EXCEPT ![s].w = None]
            /\ dbc' = [live |-> TRUE, ops |-> Some(NewDbOpsData(s, conn))]
            /\ conn_hist' = [conn_hist EXCEPT !.handed_empty = @ \/ ~IsSome(conn)]
    /\ cops' = cops + 1
    /\ UNCHANGED << dbt, job, side, cpc >>

\* BlockingWrapper::run_blocking up to the await: the inner value moves into
\* the closure; on an empty wrapper it bails and nothing changes
RunBlocking(kind, owner, ops) ==
    /\ job = None
    /\ cops < MaxConnOps
    /\ cops' = cops + 1
    /\ IF IsSome(ops)
       THEN /\ job' = Some([kind |-> kind, owner |-> owner, data |-> ops,
                            waited |-> TRUE, done |-> FALSE, ok |-> FALSE])
            /\ cpc' = "await"
            /\ IF owner = "tx"
               THEN dbt' = [dbt EXCEPT !.ops = None] /\ dbc' = dbc
               ELSE dbc' = [dbc EXCEPT !.ops = None] /\ dbt' = dbt
            /\ UNCHANGED << pool, side, conn_hist >>
       ELSE IF kind \in {"commit", "rollback"}
       THEN \* commit / rollback own the DbTransaction, dropped on return
            LET r == DropDbTransaction(World, ops, dbc.ops)
            IN  /\ ApplyWorld(r.w)
                /\ dbc' = [dbc EXCEPT !.ops = r.parent_ops]
                /\ dbt' = NoHandle
                /\ cpc' = IF r.panic THEN "panicked" ELSE "idle"
                /\ job' = job
       ELSE UNCHANGED << pool, side, conn_hist, dbc, dbt, job, cpc >>

\* DbConnection::transaction_with_type, up to the await of run_blocking
TransactionWithType ==
    /\ UNCHANGED nonconn
    /\ cpc = "idle" /\ dbc.live /\ ~dbt.live
    /\ RunBlocking("begin", "conn", dbc.ops)
\* a DbOps call (execute, query_row, ...) on the transaction if there is
\* one, else on the connection
SqlCall ==
    /\ UNCHANGED nonconn
    /\ cpc = "idle" /\ dbc.live
    /\ IF dbt.live THEN RunBlocking("sql", "tx", dbt.ops)
       ELSE RunBlocking("sql", "conn", dbc.ops)
\* DbTransaction::commit, up to the await of run_blocking
DbtCommit ==
    /\ UNCHANGED nonconn
    /\ cpc = "idle" /\ dbt.live
    /\ RunBlocking("commit", "tx", dbt.ops)
\* DbTransaction::rollback, up to the await of run_blocking
DbtRollback ==
    /\ UNCHANGED nonconn
    /\ cpc = "idle" /\ dbt.live
    /\ RunBlocking("rollback", "tx", dbt.ops)

\* what the closure of a run_blocking call does with the DbOpsData
JobFunc(kind, d, sql_ok) ==
    CASE kind = "begin" -> BeginTransaction(d, sql_ok)
      [] kind = "commit" -> CommitTransaction(d, sql_ok)
      [] kind = "rollback" -> RollbackTransaction(d, sql_ok)
      [] OTHER -> PlainSql(d, sql_ok)

\* the closure runs on the blocking pool. A failed assertion unwinds and
\* drops the DbOpsData; with the awaiting future gone the returned
\* (result, inner) is dropped as well
JobRun ==
    /\ UNCHANGED nonconn
    /\ IsSome(job) /\ ~Unwrap(job).done
    /\ \E sql_ok \in BOOLEAN :
        LET j == Unwrap(job)
            r == JobFunc(j.kind, Unwrap(j.data), sql_ok)
            asserted == [World EXCEPT !.hist.assert_failed = @ \/ r.panic]
        IN  IF r.panic
            THEN /\ ApplyWorld(DropDbOpsData(asserted, r.d))
                 /\ job' = IF j.waited
                           THEN Some([j EXCEPT !.done = TRUE, !.data = None])
                           ELSE None
            ELSE IF j.waited
            THEN /\ job' = Some([j EXCEPT !.done = TRUE, !.data = Some(r.d),
                                          !.ok = r.ok])
                 /\ UNCHANGED << pool, side, conn_hist >>
            ELSE /\ ApplyWorld(DropDbOpsData(World, r.d))
                 /\ job' = None
    /\ UNCHANGED << dbc, dbt, cpc, cops >>

\* the await of run_blocking completes: self.inner = inner, and the caller
\* goes on (transaction_with_type builds the DbTransaction; commit and
\* rollback return and drop the DbTransaction they own)
JobDone ==
    /\ UNCHANGED nonconn
    /\ cpc = "await" /\ IsSome(job) /\ Unwrap(job).done
    /\ LET j == Unwrap(job) IN
        CASE j.kind = "begin" ->
                /\ IF j.ok
                   THEN dbt' = [live |-> TRUE, ops |-> j.data]
                        /\ dbc' = [dbc EXCEPT !.ops = None]
                   ELSE dbt' = dbt /\ dbc' = [dbc EXCEPT !.ops = j.data]
                /\ cpc' = "idle"
                /\ UNCHANGED << pool, side, conn_hist >>
          [] j.kind = "sql" ->
                /\ IF j.owner = "tx"
                   THEN dbt' = [dbt EXCEPT !.ops = j.data] /\ dbc' = dbc
                   ELSE dbc' = [dbc EXCEPT !.ops = j.data] /\ dbt' = dbt
                /\ cpc' = "idle"
                /\ UNCHANGED << pool, side, conn_hist >>
          [] OTHER ->
                LET r == DropDbTransaction(World, j.data, dbc.ops)
                IN  /\ ApplyWorld(r.w)
                    /\ dbc' = [dbc EXCEPT !.ops = r.parent_ops]
                    /\ dbt' = NoHandle
                    /\ cpc' = IF r.panic THEN "panicked" ELSE "idle"
    /\ job' = None
    /\ UNCHANGED cops

\* the future that owns the connection is dropped while it awaits
\* run_blocking: the JoinHandle goes, then the DbTransaction and the
\* DbConnection it holds are dropped
Cancel ==
    /\ UNCHANGED nonconn
    /\ cpc = "await" /\ IsSome(job)
    /\ LET j == Unwrap(job)
           w0 == IF j.done THEN DropOps(World, j.data) ELSE World
           r == IF dbt.live THEN DropDbTransaction(w0, dbt.ops, dbc.ops)
                ELSE [w |-> w0, parent_ops |-> dbc.ops, panic |-> FALSE]
       IN  /\ ApplyWorld(DropOps(r.w, r.parent_ops))
           /\ job' = IF j.done THEN None ELSE Some([j EXCEPT !.waited = FALSE])
           /\ cpc' = IF r.panic THEN "panicked" ELSE "idle"
    /\ dbc' = NoHandle
    /\ dbt' = NoHandle
    /\ UNCHANGED cops

\* the DbTransaction goes out of scope without commit() or rollback()
DropTx ==
    /\ UNCHANGED nonconn
    /\ cpc = "idle" /\ dbt.live
    /\ LET r == DropDbTransaction(World, dbt.ops, dbc.ops)
       IN  /\ ApplyWorld(r.w)
           /\ dbc' = [dbc EXCEPT !.ops = r.parent_ops]
           /\ cpc' = IF r.panic THEN "panicked" ELSE "idle"
    /\ dbt' = NoHandle
    /\ UNCHANGED << job, cops >>

\* the DbConnection goes out of scope
DropConn ==
    /\ UNCHANGED nonconn
    /\ cpc = "idle" /\ dbc.live /\ ~dbt.live
    /\ ApplyWorld(DropOps(World, dbc.ops))
    /\ dbc' = NoHandle
    /\ UNCHANGED << dbt, job, cpc, cops >>

\* the closure of rollback_in_drop runs: ROLLBACK, on success the connection
\* goes back into the pooled handle, then the handle is dropped
SideRollback ==
    /\ UNCHANGED nonconn
    /\ \E c \in side : \E sql_ok \in BOOLEAN :
        LET s == c.conn_handle
            w0 == [World EXCEPT !.side = @ \ {c}]
        IN  IF ~IsSome(c.conn)
            THEN ApplyWorld(PoolPutBack([w0 EXCEPT !.hist.drop_panic = TRUE], s))
            ELSE IF sql_ok /\ SqliteAccepts(Unwrap(c.conn), "ROLLBACK")
            THEN ApplyWorld(PoolPutBack(
                    [w0 EXCEPT !.pool[s].w = Some(SqliteRun(Unwrap(c.conn), "ROLLBACK")),
                               !.hist.rolled_back = TRUE], s))
            ELSE ApplyWorld(PoolPutBack(w0, s))
    /\ UNCHANGED << dbc, dbt, job, cpc, cops >>

ConnNext ==
    \/ Connect
    \/ TransactionWithType
    \/ SqlCall
    \/ DbtCommit
    \/ DbtRollback
    \/ JobRun
    \/ JobDone
    \/ Cancel
    \/ DropTx
    \/ DropConn
    \/ SideRollback

(* ------------------- LruCache under concurrent callers --------------- *)
CacheCalls == {"cached", "insert", "invalidate"}
NoCacheTask ==
    [pc |-> "idle", kind |-> "none", key |-> 0, value |-> DefaultValue,
     do_replace |-> FALSE, line_no |-> 0, already_exists |-> FALSE,
     marked |-> FALSE, found |-> "none", alone |-> TRUE]
\* every call of the cache, MaxCacheCalls of them
FullCacheRun ==
    [kinds |-> CacheCalls, budget |-> MaxCacheCalls, keys |-> Keys,
     values |-> [k \in Keys |-> Values]]
InitLruTasks ==
    /\ ltask = [t \in Tasks |-> NoCacheTask]
    /\ lcalls = 0
    /\ lru_hist = {}
InitLru ==
    /\ lru = EmptyCache
    /\ lru_run = FullCacheRun
    /\ InitLruTasks

\* the tasks once task t has taken a step that left it as nt: every other
\* call under way has no longer run alone
Stepped(t, nt) ==
    [u \in Tasks |->
        IF u = t THEN nt
        ELSE IF ltask[u].pc = "idle" THEN ltask[u]
        ELSE [ltask[u] EXCEPT !.alone = FALSE]]

\* is_busy.compare_and_swap(false, true) on the entry in a line: the line
\* with the flag set (the returned old value is the flag before)
MarkBusy(c, line_no) ==
    [c EXCEPT !.cache_data[line_no] = Some([Unwrap(@) EXCEPT !.is_busy = TRUE])]

\* how try_insert_loop finds the key when it first looks for it
FoundAs(c, k) ==
    IF ~Resident(c, k) THEN "absent"
    ELSE IF Unwrap(c.cache_data[c.key_lookup[k]]).is_busy THEN "busy"
    ELSE "resident"

\* a task calls cached / cached_async, insert or invalidate
LruCall(t) ==
    /\ UNCHANGED nonlru
    /\ ltask[t].pc = "idle" /\ lcalls < lru_run.budget
    /\ lcalls' = lcalls + 1
    /\ \E kind \in lru_run.kinds, k \in lru_run.keys : \E v \in lru_run.values[k] :
        ltask' = Stepped(t,
            [NoCacheTask EXCEPT
                !.kind = kind, !.key = k, !.value = v,
                !.do_replace = (kind = "insert"),
                !.pc = CASE kind = "cached" -> "check"
                         [] kind = "insert" -> "probe"
                         [] OTHER -> "invalidate"])
    /\ UNCHANGED << lru, lru_hist >>

\* cached / cached_async: check_cached; on a miss make_new runs and
\* insert_cache(key, value, false) follows
LruCheck(t) ==
    /\ UNCHANGED nonlru
    /\ ltask[t].pc = "check"
    /\ ltask' = Stepped(t,
            IF IsSome(CheckCached(lru, ltask[t].key)) THEN NoCacheTask
            ELSE [ltask[t] EXCEPT !.pc = "probe"])
    /\ UNCHANGED << lru, lcalls, lru_hist >>

\* try_insert_loop, lines 81-114: look for a line already holding the key,
\* else take the line lru.replace() names
LruProbe(t) ==
    /\ UNCHANGED nonlru
    /\ ltask[t].pc = "probe"
    /\ LET k == ltask[t].key
           mine == [ltask[t] EXCEPT !.found =
                    IF @ # "none" THEN @ ELSE FoundAs(lru, k)]
       IN
        IF Resident(lru, k)
        THEN LET line_no == lru.key_lookup[k] IN
             IF ~ltask[t].do_replace
             THEN /\ ltask' = Stepped(t, NoCacheTask) /\ lru' = lru
                  /\ lru_hist' = lru_hist \cup {"kept"}
             ELSE IF ~Unwrap(lru.cache_data[line_no]).is_busy
             THEN /\ lru' = MarkBusy(lru, line_no)
                  /\ ltask' = Stepped(t,
                        [mine EXCEPT !.pc = "store", !.line_no = line_no,
                                         !.already_exists = TRUE,
                                         !.marked = TRUE])
                  /\ lru_hist' = lru_hist
             ELSE /\ lru' = lru /\ lru_hist' = lru_hist
                  /\ \E victim \in DOMAIN lru.cache_data :
                        ltask' = Stepped(t,
                            [mine EXCEPT !.pc = "evict", !.line_no = victim])
        ELSE /\ lru' = lru /\ lru_hist' = lru_hist
             /\ \E victim \in DOMAIN lru.cache_data :
                    ltask' = Stepped(t,
                        [mine EXCEPT !.pc = "evict", !.line_no = victim])
    /\ UNCHANGED lcalls

\* try_insert_loop, lines 117-123: claim the victim line by marking its
\* occupant busy; a busy occupant sends the call round again
LruEvict(t) ==
    /\ UNCHANGED nonlru
    /\ ltask[t].pc = "evict"
    /\ LET line_no == ltask[t].line_no
           line == lru.cache_data[line_no]
       IN  IF ~IsSome(line)
           THEN lru' = lru /\ ltask' = Stepped(t, [ltask[t] EXCEPT !.pc = "store"])
           ELSE IF Unwrap(line).is_busy
           THEN lru' = lru /\ ltask' = Stepped(t, [ltask[t] EXCEPT !.pc = "probe"])
           ELSE /\ lru' = MarkBusy(lru, line_no)
                /\ ltask' = Stepped(t,
                        [ltask[t] EXCEPT !.pc = "unlink", !.marked = TRUE])
    /\ UNCHANGED << lcalls, lru_hist >>

\* try_insert_loop, line 125, and invalidate_cache, line 156:
\* key_lookup.remove(&line.key) for the occupant the call marked busy,
\* which is still in the line (only the marker stores into it)
LruUnlink(t) ==
    /\ UNCHANGED nonlru
    /\ ltask[t].pc = "unlink"
    /\ LET line == lru.cache_data[ltask[t].line_no] IN
        lru' = IF IsSome(line)
               THEN [lru EXCEPT !.key_lookup = MapDel(@, Unwrap(line).key)]
               ELSE lru
    /\ ltask' = Stepped(t,
            IF ltask[t].kind = "invalidate" THEN NoCacheTask
            ELSE [ltask[t] EXCEPT !.pc = "store"])
    /\ UNCHANGED << lcalls, lru_hist >>

\* try_insert_loop, lines 129-130: the new entry is stored in the line
LruStore(t) ==
    /\ UNCHANGED nonlru
    /\ ltask[t].pc = "store"
    /\ lru' = [lru EXCEPT !.cache_data[ltask[t].line_no] =
                    Some(NewEntry(ltask[t].key, ltask[t].value))]
    /\ ltask' = Stepped(t, [ltask[t] EXCEPT !.pc = "publish"])
    /\ UNCHANGED << lcalls, lru_hist >>

\* the return of try_insert_loop without the entry into key_lookup
LruPublishUnlisted(t) ==
    /\ UNCHANGED nonlru
    /\ ltask[t].pc = "publish"
    /\ lru' = lru
    /\ ltask' = Stepped(t, NoCacheTask)
    /\ lru_hist' = IF ltask[t].kind = "insert" /\ ltask[t].alone
                   THEN lru_hist \cup {ltask[t].found} ELSE lru_hist
    /\ UNCHANGED lcalls

\* try_insert_loop, lines 131-135: the busy flag of the new entry is
\* cleared, or the key is entered into key_lookup
LruPublish(t) ==
    /\ UNCHANGED nonlru
    /\ ltask[t].pc = "publish"
    /\ lru' = IF ltask[t].already_exists THEN lru
              ELSE [lru EXCEPT !.key_lookup = MapPut(@, ltask[t].key, ltask[t].line_no)]
    /\ ltask' = Stepped(t, NoCacheTask)
    /\ lru_hist' = IF ltask[t].kind = "insert" /\ ltask[t].alone
                   THEN lru_hist \cup {ltask[t].found} ELSE lru_hist
    /\ UNCHANGED lcalls

\* LruCache::invalidate_cache, lines 146-155: the occupant of the key's
\* line is marked busy; a busy occupant ends the call
LruInvalidate(t) ==
    /\ UNCHANGED nonlru
    /\ ltask[t].pc = "invalidate"
    /\ LET k == ltask[t].key IN
        IF k \in DOMAIN lru.key_lookup /\ IsSome(lru.cache_data[lru.key_lookup[k]])
        THEN LET line_no == lru.key_lookup[k]
                 line == Unwrap(lru.cache_data[line_no])
             IN  IF line.is_busy
                 THEN /\ lru' = lru
                      /\ ltask' = Stepped(t, NoCacheTask)
                 ELSE /\ lru' = MarkBusy(lru, line_no)
                      /\ ltask' = Stepped(t,
                            [ltask[t] EXCEPT !.pc = "unlink", !.line_no = line_no,
                                             !.marked = TRUE])
        ELSE lru' = lru /\ ltask' = Stepped(t, NoCacheTask)
    /\ UNCHANGED << lcalls, lru_hist >>

LruNext ==
    \E t \in Tasks :
        \/ LruCall(t)
        \/ LruCheck(t)
        \/ LruProbe(t)
        \/ LruEvict(t)
        \/ LruUnlink(t)
        \/ LruStore(t)
        \/ LruPublish(t)
        \/ LruInvalidate(t)

(* ----------------------- KVS registration pass ----------------------- *)
\* What init_kvs does at every start of the process: it loads the rows of
\* sylphie_db_kvs_info and transient.sylphie_db_kvs_info, dispatches
\* InitKvsEvent to the stores (init_module once per store), drops the unused
\* transient tables and dispatches InitKvsLate.  Both database files live
\* across restarts.

Modules == 1..NumModules
\* the key schema version a store reports: the one of the first build, or
\* the one of a build that changed the key type
KeyVersions == {0, 1}
\* what a store reports to init_module
\* the name of the key type a store reports (K::ID)
KeyIds == {1, 2}
KeySchemas == [key_id : KeyIds, key_version : KeyVersions]
KeySchemaOf(x) == [key_id |-> x.key_id, key_version |-> x.key_version]
\* the key schemas of one key type, and the one of the first build
OneKeyType == {k \in KeySchemas : k.key_id = 1}
FirstKeySchema == {k \in OneKeyType : k.key_version = 0}
StoreDescs ==
    [module_path : Modules, is_transient : BOOLEAN, key_id : KeyIds,
     key_version : KeyVersions]
\* (hash values are taken relative to the first module's sequence)
\* the first four hex digits of a blake3 hash: more values than there can
\* ever be tracked tables
HashSpace == 2 * NumModules
\* the last value of unique_id (u32::MAX)
MaxUniqueId == HashSpace
\* the `parent_name` fragment of a module path: two modules share one
NameFrag(m) == (m + 1) \div 2
\* blake3::hash(format!("{}|{}", unique_id, module_name)), first four digits
Blake3(unique_id, m) == (blake3[m] + unique_id) % HashSpace

KvsTarget(s) == [module_path |-> s.module_path, is_transient |-> s.is_transient]
TargetOf(md) == [module_path |-> md.module_path, is_transient |-> md.is_transient]
TableOf(md) == [is_transient |-> md.is_transient, table_name |-> md.table_name]

\* create_table_name's loop from a given unique_id; None when unique_id
\* runs out
RECURSIVE ProbeFrom(_, _, _)
ProbeFrom(used, m, unique_id) ==
    IF unique_id > MaxUniqueId THEN None
    ELSE LET table_name == [hash |-> Blake3(unique_id, m), frag |-> NameFrag(m)]
         IN  IF table_name \notin used
             THEN Some([table_name |-> table_name, unique_id |-> unique_id])
             ELSE ProbeFrom(used, m, unique_id + 1)
\* a probe that takes the first name whatever is in use
CreateTableNameUnsalted(used, m) == ProbeFrom({}, m, 0)
CreateTableName(used, m) == ProbeFrom(used, m, 0)

\* load_kvs_metadata(false) and load_kvs_metadata(true)
LoadKvsMetadata(rows) ==
    [used_table_names |-> {r.table_name : r \in rows},
     module_metadata |-> {[module_path |-> r.module_path, is_transient |-> r.is_transient,
                           table_name |-> r.table_name, key_id |-> r.key_id,
                           key_version |-> r.key_version,
                           is_used |-> FALSE] : r \in rows}]

NoPass ==
    [pc |-> "idle", found_modules |-> {}, used_table_names |-> {},
     module_metadata |-> {}, stores |-> {}]
NoRegHist ==
    [created |-> {}, rows_added |-> 0, dropped |-> {}, clash |-> FALSE,
     salted |-> FALSE, exhausted |-> FALSE,
     prev_ok |-> FALSE, prev_stores |-> {}, prev_bound |-> {}]

InitReg ==
    /\ kvs_info = {}
    /\ db_tables = {}
    /\ reg = NoPass
    /\ bound = {}
    /\ passes = 0
    /\ reg_hist = NoRegHist
    /\ blake3 \in {f \in [Modules -> 0..MaxOffset] : f[1] = 0}
    /\ pass_budget \in {MaxPasses, MaxNamePasses}
    /\ key_schemas \in {KeySchemas, OneKeyType, FirstKeySchema}
    /\ reg_calls = 0
    /\ call_budget \in {None, Some(MaxRegCalls), Some(MaxNameCalls)}

\* the process starts: init_kvs up to the dispatch of InitKvsEvent
InitKvsStart ==
    /\ UNCHANGED nonreg
    /\ reg.pc # "dispatch"
    /\ passes < pass_budget
    /\ passes' = passes + 1
    /\ LET loaded == LoadKvsMetadata(kvs_info)
       IN  reg' = [pc |-> "dispatch", found_modules |-> {},
                   used_table_names |-> loaded.used_table_names,
                   module_metadata |-> loaded.module_metadata,
                   stores |-> {}]
    /\ bound' = {}
    /\ reg_hist' = [NoRegHist EXCEPT
                        !.clash = reg_hist.clash,
                        !.salted = reg_hist.salted,
                        !.exhausted = reg_hist.exhausted,
                        !.prev_ok = (reg.pc = "ready"),
                        !.prev_stores = reg.stores,
                        !.prev_bound = bound]
    /\ UNCHANGED << kvs_info, db_tables, blake3, pass_budget, key_schemas,
                    reg_calls, call_budget >>

\* create_kvs_table: CREATE TABLE and the INSERT of the tracking row in one
\* exclusive transaction
CreateKvsTable(s, table_name) ==
    LET tbl == [is_transient |-> s.is_transient, table_name |-> table_name]
        md == [module_path |-> s.module_path, is_transient |-> s.is_transient,
               table_name |-> table_name, key_id |-> s.key_id,
               key_version |-> s.key_version,
               is_used |-> TRUE]
    IN  IF tbl \in db_tables
        THEN \* CREATE TABLE fails; the transaction is dropped
             /\ reg' = [reg EXCEPT !.pc = "failed",
                                   !.found_modules = @ \cup {s.module_path},
                                   !.stores = @ \cup {s}]
             /\ UNCHANGED << kvs_info, db_tables >>
        ELSE /\ db_tables' = db_tables \cup {tbl}
             /\ kvs_info' = kvs_info \cup
                    {[module_path |-> s.module_path, is_transient |-> s.is_transient,
                      table_name |-> table_name, key_id |-> s.key_id,
                      key_version |-> s.key_version]}
             /\ reg' = [reg EXCEPT
                            !.found_modules = @ \cup {s.module_path},
                            !.stores = @ \cup {s},
                            !.used_table_names = @ \cup {table_name},
                            !.module_metadata = @ \cup {md}]

\* a check that accepts any key schema
KeyMatchesAlways(md, s) == TRUE
\* key_id_matches && key_version_matches
KeyMatches(md, s) == KeySchemaOf(md) = KeySchemaOf(s)

\* one store handles InitKvsEvent: init_module.  The event reaches the
\* modules in the order of the module tree, which is the order of Modules.
InitModule(s) ==
    /\ UNCHANGED nonreg
    /\ reg.pc = "dispatch"
    /\ \A m \in reg.found_modules : m <= s.module_path
    /\ KeySchemaOf(s) \in key_schemas
    /\ IsSome(call_budget) => reg_calls < Unwrap(call_budget)
    /\ reg_calls' = IF IsSome(call_budget) THEN reg_calls + 1 ELSE reg_calls
    /\ UNCHANGED << bound, passes, blake3, pass_budget, key_schemas, call_budget >>
    /\ IF s.module_path \in reg.found_modules
       THEN \* bail!("Duplicate KVS module name found")
            /\ reg' = [reg EXCEPT !.pc = "failed", !.stores = @ \cup {s}]
            /\ UNCHANGED << kvs_info, db_tables, reg_hist >>
       ELSE LET existing == {md \in reg.module_metadata : TargetOf(md) = KvsTarget(s)}
            IN  IF existing # {}
                THEN /\ UNCHANGED << kvs_info, db_tables, reg_hist >>
                     /\ IF \A md \in existing : KeyMatches(md, s)
                        THEN reg' = [reg EXCEPT
                                !.found_modules = @ \cup {s.module_path},
                                !.stores = @ \cup {s},
                                !.module_metadata =
                                    (@ \ existing) \cup
                                    {[md EXCEPT !.is_used = TRUE] : md \in existing}]
                        ELSE \* todo!("Conversions for mismatched kvs key versions.")
                             reg' = [reg EXCEPT
                                !.pc = "panicked",
                                !.found_modules = @ \cup {s.module_path},
                                !.stores = @ \cup {s},
                                !.module_metadata =
                                    (@ \ existing) \cup
                                    {[md EXCEPT !.is_used = TRUE] : md \in existing}]
                ELSE LET probe == CreateTableName(reg.used_table_names, s.module_path)
                     IN  IF ~IsSome(probe)
                         THEN /\ reg' = [reg EXCEPT !.pc = "failed",
                                                    !.stores = @ \cup {s}]
                              /\ reg_hist' = [reg_hist EXCEPT !.exhausted = TRUE]
                              /\ UNCHANGED << kvs_info, db_tables >>
                         ELSE LET table_name == Unwrap(probe).table_name
                              IN  /\ CreateKvsTable(s, table_name)
                                  /\ reg_hist' = [reg_hist EXCEPT
                                        !.clash = @ \/ table_name \in
                                            {r.table_name : r \in kvs_info}
                                            \cup reg_hist.created,
                                        !.salted = @ \/ Unwrap(probe).unique_id > 0,
                                        !.created = @ \cup {table_name},
                                        !.rows_added =
                                            @ + Cardinality(kvs_info' \ kvs_info)]

\* the rest of init_kvs: the loop that drops the unused transient tables, in
\* the order the HashMap yields them, stopping at the first DROP TABLE that
\* fails, and then the dispatch of InitKvsLate
InitKvsFinish ==
    /\ UNCHANGED nonreg
    /\ reg.pc = "dispatch"
    /\ UNCHANGED << kvs_info, passes, blake3, pass_budget, key_schemas,
                    reg_calls, call_budget >>
    /\ LET unused == {md \in reg.module_metadata : ~md.is_used /\ md.is_transient}
           missing == {md \in unused : TableOf(md) \notin db_tables}
       IN  IF missing = {}
           THEN /\ db_tables' = db_tables \ {TableOf(md) : md \in unused}
                /\ reg_hist' = [reg_hist EXCEPT
                                    !.dropped = {TableOf(md) : md \in unused}]
                /\ reg' = [reg EXCEPT !.pc = "ready"]
                /\ bound' = {[module_path |-> md.module_path,
                              is_transient |-> md.is_transient,
                              table_name |-> md.table_name] :
                                md \in {x \in reg.module_metadata : x.is_used}}
           ELSE \E before \in SUBSET (unused \ missing) :
                /\ db_tables' = db_tables \ {TableOf(md) : md \in before}
                /\ reg_hist' = [reg_hist EXCEPT
                                    !.dropped = {TableOf(md) : md \in before}]
                /\ reg' = [reg EXCEPT !.pc = "drop_failed"]
                /\ bound' = bound

RegNext ==
    \/ InitKvsStart
    \/ \E s \in StoreDescs : InitModule(s)
    \/ InitKvsFinish

(* ------------- storage operations sharing the connection pool -------- *)
\* the operations by the connections they take: a KVS get / set / remove
\* and StringId::intern take one; ConfigManager::set / remove / get intern
\* the scope, then connect and intern the storage name while connected
CfgKinds == {"kvs", "intern", "config"}
NoCfg == [pc |-> "idle", kind |-> "none", conns |-> 0]
InitCfg ==
    /\ cfg = [t \in Tasks |-> NoCfg]
    /\ cfg_calls = 0

\* connections checked out of the pool
RECURSIVE SumConns(_)
SumConns(ts) ==
    IF ts = {} THEN 0
    ELSE LET t == CHOOSE x \in ts : TRUE
         IN  cfg[t].conns + SumConns(ts \ {t})
CheckedOut == SumConns(Tasks)
\* Pool::get returns when a handle is idle or can be created; it waits,
\* without timeout, while max_size handles are checked out
PoolGetReady == CheckedOut < MaxSize

\* where a task stands once Database::connect has returned
AfterConnect(c) ==
    CASE c.pc = "scope" -> "scoped"
      [] c.pc = "intern" -> "interned"
      [] c.kind = "config" -> "intern"
      [] OTHER -> "query"
\* where a task stands once it has dropped its latest connection
AfterDrop(c) ==
    CASE c.pc = "scoped" -> "connect"
      [] c.pc = "interned" -> "execute"
      [] OTHER -> "idle"

\* a task calls a storage operation
CfgCall(t) ==
    /\ UNCHANGED noncfg
    /\ cfg[t].pc = "idle"
    /\ cfg_calls < MaxCfgCalls
    /\ cfg_calls' = cfg_calls + 1
    /\ \E kd \in CfgKinds :
        cfg' = [cfg EXCEPT ![t] =
            [pc |-> IF kd = "config" THEN "scope" ELSE "connect",
             kind |-> kd, conns |-> 0]]

\* target.connect_db().await returns: for ScopeId::intern, for the
\* operation's own connection (the key lock, which is always granted, is
\* held from here on) or for StringId::intern inside set_0 / remove_0 / get
ConnectDb(t) ==
    /\ UNCHANGED noncfg
    /\ cfg[t].pc \in {"scope", "connect", "intern"}
    /\ PoolGetReady
    /\ cfg' = [cfg EXCEPT ![t].pc = AfterConnect(cfg[t]),
                          ![t].conns = cfg[t].conns + 1]
    /\ UNCHANGED cfg_calls

\* the database answers and the connection used is dropped: the interner's
\* temporary connection, or the operation's own when it returns
DropConnection(t) ==
    /\ UNCHANGED noncfg
    /\ cfg[t].pc \in {"scoped", "interned", "query", "execute"}
    /\ cfg' = [cfg EXCEPT ![t].pc = AfterDrop(cfg[t]),
                          ![t].conns = cfg[t].conns - 1,
                          ![t].kind = IF AfterDrop(cfg[t]) = "idle" THEN "none"
                                      ELSE cfg[t].kind]
    /\ UNCHANGED cfg_calls

CfgNext == \E t \in Tasks : CfgCall(t) \/ ConnectDb(t) \/ DropConnection(t)

(* --------------------------- SingletonStore -------------------------- *)
\* the row set_raw hands to kvs.set: the serialized value under V's schema
SingletonData(v) ==
    [value |-> Serialize(v), ser_id |-> VALUE_ID, ser_ver |-> SCHEMA_VERSION,
     exists |-> TRUE]
NoSing == [pc |-> "idle", value |-> DefaultValue, dirty |-> FALSE,
           from |-> "none"]
\* the store after init_cache: init_underlying has written the row of
\* V::default() and read_db has loaded it into cached_instance
InitSing ==
    /\ cached_instance = Some(DefaultValue)
    /\ locked = 0
    /\ singletons = SingletonData(DefaultValue)
    /\ stask = [t \in Tasks |-> NoSing]
    /\ scalls = 0
    /\ sing_hist = [commits |-> 0, sets |-> 0]

\* get_mut: cached_instance.write().await returns once no other task holds
\* the lock; the guard owns a clone of the value and the write guard
SingGetMut(t) ==
    /\ stask[t].pc = "idle"
    /\ scalls < MaxSingCalls
    /\ locked = 0
    /\ locked' = t
    /\ stask' = [stask EXCEPT ![t] = [pc |-> "guard",
                                      value |-> Unwrap(cached_instance),
                                      dirty |-> FALSE, from |-> "none"]]
    /\ scalls' = scalls + 1
    /\ UNCHANGED << cached_instance, singletons, sing_hist >>
    /\ UNCHANGED nonsing

\* DerefMut: the caller changes the guard's own copy (here: adds one)
SingDerefMut(t) ==
    /\ stask[t].pc = "guard"
    /\ ~stask[t].dirty
    /\ stask' = [stask EXCEPT ![t].value = @ + 1, ![t].dirty = TRUE]
    /\ UNCHANGED << cached_instance, locked, singletons, scalls, sing_hist >>
    /\ UNCHANGED nonsing

\* commit, up to the call of set_raw: std::mem::drop(self.locked) releases
\* the write guard, self.value goes to set_raw
SingCommit(t) ==
    /\ stask[t].pc = "guard"
    /\ locked' = 0
    /\ stask' = [stask EXCEPT ![t].pc = "set_raw", ![t].from = "commit"]
    /\ UNCHANGED << cached_instance, singletons, scalls, sing_hist >>
    /\ UNCHANGED nonsing

\* set(v): set_raw(v)
SingSet(t, v) ==
    /\ stask[t].pc = "idle"
    /\ scalls < MaxSingCalls
    /\ stask' = [stask EXCEPT ![t] = [pc |-> "set_raw", value |-> v,
                                      dirty |-> FALSE, from |-> "set"]]
    /\ scalls' = scalls + 1
    /\ sing_hist' = [sing_hist EXCEPT !.sets = @ + 1]
    /\ UNCHANGED << cached_instance, locked, singletons >>
    /\ UNCHANGED nonsing

\* set_raw: cached_instance.write().await returns once the lock is free;
\* under the lock the row goes to kvs.set and the value into
\* cached_instance; the write guard is dropped at the return
SingSetRaw(t) ==
    /\ stask[t].pc = "set_raw"
    /\ locked = 0
    /\ singletons' = SingletonData(stask[t].value)
    /\ cached_instance' = Some(stask[t].value)
    /\ sing_hist' = IF stask[t].from = "commit" /\ stask[t].dirty
                    THEN [sing_hist EXCEPT !.commits = @ + 1]
                    ELSE sing_hist
    /\ stask' = [stask EXCEPT ![t] = NoSing]
    /\ UNCHANGED << locked, scalls >>
    /\ UNCHANGED nonsing

SingNext ==
    \E t \in Tasks :
        \/ SingGetMut(t) \/ SingDerefMut(t) \/ SingCommit(t)
        \/ (\E v \in Values : SingSet(t, v))
        \/ SingSetRaw(t)

(* --------------------------- specifications -------------------------- *)
vars == << kvsvars, internvars, migvars, connvars, lruvars, revvars, ibudget,
          regvars,
          cfgvars, singvars >>

Init ==
    /\ InitKvs /\ InitIntern /\ InitMig /\ InitConn /\ InitLru /\ InitRev /\ InitReg
    /\ InitCfg /\ InitSing
    /\ blake3 = [m \in Modules |-> 0]
    /\ pass_budget = MaxPasses
    /\ key_schemas = OneKeyType
    /\ call_budget = None
    /\ mig_db = NewDb
    /\ hive_table = {}
    /\ ibudget = MaxCalls
    /\ static_migration = [NoMigration EXCEPT !.migration_id = MIGRATION_ID]
Next == KvsNext
Spec == Init /\ [][Next]_vars

NextIntern == InternNext
InitI ==
    /\ InitKvs /\ InitIntern /\ InitMig /\ InitConn /\ InitLru /\ InitRev /\ InitReg
    /\ InitCfg /\ InitSing
    /\ blake3 = [m \in Modules |-> 0]
    /\ pass_budget = MaxPasses
    /\ key_schemas = OneKeyType
    /\ call_budget = None
    /\ mig_db = NewDb
    /\ static_migration = [NoMigration EXCEPT !.migration_id = MIGRATION_ID]
    /\ ibudget = MaxCalls
SpecIntern == InitI /\ [][NextIntern]_vars

\* the hive alone, from any startup table, over a shorter run
InitHive ==
    /\ InitKvs /\ InitIntern /\ InitMig /\ InitConn /\ InitLru /\ InitRev /\ InitReg
    /\ InitCfg /\ InitSing
    /\ blake3 = [m \in Modules |-> 0]
    /\ pass_budget = MaxPasses
    /\ key_schemas = OneKeyType
    /\ call_budget = None
    /\ mig_db = NewDb
    /\ static_migration = [NoMigration EXCEPT !.migration_id = MIGRATION_ID]
    /\ ibudget = MaxInterns
NextHive == InternNext
SpecHive == InitHive /\ [][NextHive]_vars

NextMig == MigNext
InitM ==
    /\ InitKvs /\ InitIntern /\ InitMig /\ InitConn /\ InitLru /\ InitRev /\ InitReg
    /\ InitCfg /\ InitSing
    /\ blake3 = [m \in Modules |-> 0]
    /\ pass_budget = MaxPasses
    /\ key_schemas = OneKeyType
    /\ call_budget = None
    /\ hive_table = {}
    /\ ibudget = MaxCalls
SpecMig == InitM /\ [][NextMig]_vars

NextConn == ConnNext
SpecConn == Init /\ [][NextConn]_vars

NextLru == LruNext
SpecLru == Init /\ [][NextLru]_vars
\* every call under way keeps being run: its steps never block, and the
\* thread or task that runs it is scheduled again and again
FairLru ==
    \A t \in Tasks :
        WF_vars(LruCheck(t) \/ LruProbe(t) \/ LruEvict(t) \/ LruUnlink(t)
                    \/ LruStore(t) \/ LruPublish(t) \/ LruInvalidate(t))
SpecLruFair == SpecLru /\ FairLru

\* the registration pass over MaxPasses starts of the process
InitR ==
    /\ InitKvs /\ InitIntern /\ InitMig /\ InitConn /\ InitLru /\ InitRev /\ InitReg
    /\ InitCfg /\ InitSing
    /\ pass_budget = MaxPasses
    /\ key_schemas = OneKeyType
    /\ call_budget = None
    /\ mig_db = NewDb
    /\ hive_table = {}
    /\ ibudget = MaxCalls
    /\ static_migration = [NoMigration EXCEPT !.migration_id = MIGRATION_ID]
NextReg == RegNext
SpecReg == InitR /\ [][NextReg]_vars

\* the registration pass over MaxNamePasses starts of the process, by
\* builds that all report one key schema version
InitNames ==
    /\ InitKvs /\ InitIntern /\ InitMig /\ InitConn /\ InitLru /\ InitRev /\ InitReg
    /\ InitCfg /\ InitSing
    /\ pass_budget = MaxNamePasses
    /\ key_schemas = FirstKeySchema
    /\ call_budget = Some(MaxNameCalls)
    /\ mig_db = NewDb
    /\ hive_table = {}
    /\ ibudget = MaxCalls
    /\ static_migration = [NoMigration EXCEPT !.migration_id = MIGRATION_ID]
NextNames == RegNext
SpecNames == InitNames /\ [][NextNames]_vars

\* the registration pass by builds that change the key schema of a store,
\* over MaxRegCalls registrations
InitDrift ==
    /\ InitKvs /\ InitIntern /\ InitMig /\ InitConn /\ InitLru /\ InitRev /\ InitReg
    /\ InitCfg /\ InitSing
    /\ pass_budget = MaxNamePasses
    /\ key_schemas = KeySchemas
    /\ call_budget = Some(MaxRegCalls)
    /\ blake3 = [m \in Modules |-> 0]
    /\ mig_db = NewDb
    /\ hive_table = {}
    /\ ibudget = MaxCalls
    /\ static_migration = [NoMigration EXCEPT !.migration_id = MIGRATION_ID]
NextDrift == RegNext
SpecDrift == InitDrift /\ [][NextDrift]_vars

\* get and set on a persistent or a transient store whose table holds one
\* row, written under the previous schema version
OldTable == [k \in {1} |-> OldRow(1)]
InitOld ==
    /\ InitKvsTasks /\ InitIntern /\ InitMig /\ InitConn /\ InitLru /\ InitRev /\ InitReg
    /\ InitCfg /\ InitSing
    /\ table = OldTable
    /\ \E tr \in BOOLEAN :
        kvs_run = [is_transient |-> tr, kinds |-> {"get", "set"},
                   budget |-> MaxOldCalls, migrates |-> FALSE]
    /\ blake3 = [m \in Modules |-> 0]
    /\ pass_budget = MaxPasses
    /\ key_schemas = OneKeyType
    /\ call_budget = None
    /\ mig_db = NewDb /\ hive_table = {} /\ ibudget = MaxCalls
    /\ static_migration = [NoMigration EXCEPT !.migration_id = MIGRATION_ID]
NextOld ==
    \E t \in Tasks :
        \/ Call(t)
        \/ Return(t)
        \/ LockPoll(t)
        \/ Check(t)
        \/ Load(t)
        \/ Fill(t)
        \/ StoreValue(t)
        \/ Finish(t)
SpecOld == InitOld /\ [][NextOld]_vars

\* get and set on a store that holds a row of the previous schema version,
\* for a value type that declares the migration from that version
InitUpgrade ==
    /\ InitKvsTasks /\ InitIntern /\ InitMig /\ InitConn /\ InitLru /\ InitRev /\ InitReg
    /\ InitCfg /\ InitSing
    /\ table = OldTable
    /\ kvs_run = [is_transient |-> IS_TRANSIENT, kinds |-> {"get", "set"},
                  budget |-> MaxOldCalls, migrates |-> TRUE]
    /\ blake3 = [m \in Modules |-> 0]
    /\ pass_budget = MaxPasses
    /\ key_schemas = OneKeyType
    /\ call_budget = None
    /\ mig_db = NewDb /\ hive_table = {} /\ ibudget = MaxCalls
    /\ static_migration = [NoMigration EXCEPT !.migration_id = MIGRATION_ID]
SpecUpgrade == InitUpgrade /\ [][NextOld]_vars

\* get and set calls alone on a new store: every set writes the one value,
\* so overlapping sets agree and only a get can bring another value in
InitGetSet ==
    /\ InitKvsTasks /\ InitIntern /\ InitMig /\ InitConn /\ InitLru /\ InitRev /\ InitReg
    /\ InitCfg /\ InitSing
    /\ table = EmptyMap
    /\ kvs_run = [is_transient |-> IS_TRANSIENT, kinds |-> {"get", "set"},
                  budget |-> MaxCalls, migrates |-> FALSE]
    /\ blake3 = [m \in Modules |-> 0]
    /\ pass_budget = MaxPasses
    /\ key_schemas = OneKeyType
    /\ call_budget = None
    /\ mig_db = NewDb /\ hive_table = {} /\ ibudget = MaxCalls
    /\ static_migration = [NoMigration EXCEPT !.migration_id = MIGRATION_ID]
SpecGetSet == InitGetSet /\ [][NextOld]_vars

\* remove calls alone: each takes the key lock, deletes the row and drops
\* the guard; the fair version polls every task that can be polled and
\* lets every holder reach the drop of its guard
InitLock ==
    /\ InitKvsTasks /\ InitIntern /\ InitMig /\ InitConn /\ InitLru /\ InitRev /\ InitReg
    /\ InitCfg /\ InitSing
    /\ table = EmptyMap
    /\ kvs_run = [is_transient |-> IS_TRANSIENT, kinds |-> {"remove"},
                  budget |-> MaxLockCalls, migrates |-> FALSE]
    /\ blake3 = [m \in Modules |-> 0]
    /\ pass_budget = MaxPasses
    /\ key_schemas = OneKeyType
    /\ call_budget = None
    /\ mig_db = NewDb /\ hive_table = {} /\ ibudget = MaxCalls
    /\ static_migration = [NoMigration EXCEPT !.migration_id = MIGRATION_ID]
NextLock ==
    \E t \in Tasks :
        \/ Call(t)
        \/ Return(t)
        \/ LockPoll(t)
        \/ DeleteValue(t)
        \/ Finish(t)
InitPool ==
    /\ InitKvs /\ InitIntern /\ InitMig /\ InitConn /\ InitLru /\ InitRev /\ InitReg
    /\ InitCfg /\ InitSing
    /\ blake3 = [m \in Modules |-> 0]
    /\ pass_budget = MaxPasses
    /\ key_schemas = OneKeyType
    /\ call_budget = None
    /\ mig_db = NewDb /\ hive_table = {} /\ ibudget = MaxCalls
    /\ static_migration = [NoMigration EXCEPT !.migration_id = MIGRATION_ID]
NextPool == CfgNext
SpecPool == InitPool /\ [][NextPool]_vars

\* cached and insert calls of one value on two keys, on a cache of
\* InsLines lines that holds key 1 from an earlier insert of another value
InitIns ==
    /\ InitKvs /\ InitIntern /\ InitMig /\ InitConn /\ InitLruTasks /\ InitRev /\ InitReg
    /\ InitCfg /\ InitSing
    /\ lru = TryInsertLoop(
                [cache_data |-> [i \in 1..InsLines |-> None], key_lookup |-> EmptyMap],
                1, DefaultValue, TRUE, 1)
    /\ lru_run = [kinds |-> {"cached", "insert"}, budget |-> MaxInsCalls,
                  keys |-> {1, 2}, values |-> [k \in {1, 2} |-> {1}]]
    /\ blake3 = [m \in Modules |-> 0]
    /\ pass_budget = MaxPasses
    /\ key_schemas = OneKeyType
    /\ call_budget = None
    /\ mig_db = NewDb /\ hive_table = {} /\ ibudget = MaxCalls
    /\ static_migration = [NoMigration EXCEPT !.migration_id = MIGRATION_ID]
NextIns ==
    \E t \in Tasks :
        \/ LruCall(t)
        \/ LruCheck(t)
        \/ LruProbe(t)
        \/ LruEvict(t)
        \/ LruUnlink(t)
        \/ LruStore(t)
        \/ LruPublish(t)
SpecIns == InitIns /\ [][NextIns]_vars

InitRepeat ==
    /\ InitKvs /\ InitIntern /\ InitMigRepeat /\ InitConn /\ InitLru /\ InitRev /\ InitReg
    /\ InitCfg /\ InitSing
    /\ blake3 = [m \in Modules |-> 0]
    /\ pass_budget = MaxPasses
    /\ key_schemas = OneKeyType
    /\ call_budget = None
    /\ hive_table = {}
    /\ ibudget = MaxCalls
\* cached and insert calls on a new cache, each key with a value of its own
InitLookup ==
    /\ InitKvs /\ InitIntern /\ InitMig /\ InitConn /\ InitLruTasks /\ InitRev /\ InitReg
    /\ InitCfg /\ InitSing
    /\ lru = EmptyCache
    /\ lru_run = [kinds |-> {"cached", "insert"}, budget |-> MaxLookupCalls,
                  keys |-> {1, 2}, values |-> [k \in {1, 2} |-> {k}]]
    /\ blake3 = [m \in Modules |-> 0]
    /\ pass_budget = MaxPasses
    /\ key_schemas = OneKeyType
    /\ call_budget = None
    /\ mig_db = NewDb /\ hive_table = {} /\ ibudget = MaxCalls
    /\ static_migration = [NoMigration EXCEPT !.migration_id = MIGRATION_ID]
SpecLookup == InitLookup /\ [][NextIns]_vars

NextRepeat == MigNext
SpecRepeat == InitRepeat /\ [][NextRepeat]_vars

\* get_mut / commit and set calls on one SingletonStore after init_cache
NextSing == SingNext
SpecSing == Init /\ [][NextSing]_vars

SpecLock == InitLock /\ [][NextLock]_vars
FairLock ==
    \A t \in Tasks :
        /\ WF_vars(LockPoll(t))
        /\ WF_vars(DeleteValue(t))
        /\ WF_vars(Finish(t))
SpecLockFair == SpecLock /\ FairLock


(* ----------------------- claims on Spec (KVS) ------------------------ *)

\* C1: for every key at most one LockSetGuard is live, whatever the
\* interleaving of lock, try_lock and guard drops.
LockSetMutualExclusion ==
    \A k \in Keys : Cardinality({t \in Tasks : guard[t] = k}) <= 1

\* C2: for one store and one key the intervals "set holds the key lock",
\* "remove holds the key lock" and "a KvsMutGuard is live" never overlap.
SetHoldsLock(t, k) ==
    op[t].kind = "set" /\ op[t].k = k /\ pc[t] \in {"store", "finish"}
RemoveHoldsLock(t, k) ==
    op[t].kind = "remove" /\ op[t].k = k /\ pc[t] \in {"delete", "finish"}
MutGuardLive(t, k) ==
    op[t].kind \in MutKinds /\ op[t].k = k
        /\ pc[t] \in {"guard", "store", "delete", "finish"}
MutationInFlight(t, k) ==
    SetHoldsLock(t, k) \/ RemoveHoldsLock(t, k) \/ MutGuardLive(t, k)
KvsOneMutationInFlight ==
    \A k \in Keys : \A t, u \in Tasks :
        (MutationInFlight(t, k) /\ MutationInFlight(u, k)) => t = u

\* C3: try_lock(key) returns None whenever a guard for key is live, so of
\* two concurrent try_get_mut calls on one key only one gets a KvsMutGuard.
TryLockFailsWhenHeld ==
    [][\A t \in Tasks :
        (/\ pc[t] = "trylock"
         /\ pc'[t] # "trylock"
         /\ \E u \in Tasks \ {t} : guard[u] = op[t].k)
        => ret'[t].st = "unavailable"]_vars

\* C5: once set(key, value) has returned Ok and no set/remove/commit step
\* on the key happened since, get(key) returns Some(value).
SetGetRoundTrip ==
    \A k \in Keys :
        (settled[k] # Unknown /\ Unwrap(settled[k]).by = "set")
        => Get0(cache, table, k) = [st |-> "ok", val |-> Unwrap(settled[k]).val]

\* C6: once remove(key) has returned Ok and no set/commit step on the key
\* happened since, get(key) returns None, cached or evicted.
RemoveGetAbsent ==
    \A k \in Keys :
        (settled[k] # Unknown /\ Unwrap(settled[k]).by = "remove")
        => Get0(cache, table, k) = [st |-> "ok", val |-> None]

\* C7: no step of a get_mut / try_get_mut call that ends in the guard being
\* dropped without commit() or remove() changes the table or what get(key)
\* returns.
GuardSessionStep(t) ==
    /\ op[t].kind \in MutKinds
    /\ pc[t] \in {"check", "load", "fill", "guard"}
    /\ pc'[t] \in {"check", "load", "fill", "guard", "done", "panicked"}
    /\ << pc[t], local[t] >> # << pc'[t], local'[t] >>
GuardDropLeavesValue ==
    [][\A t \in Tasks :
        GuardSessionStep(t)
        => /\ table' = table
           /\ Get0(cache', table', op[t].k) = Get0(cache, table, op[t].k)]_vars

\* C8: when KvsMutGuard::commit returns Ok the row of the key holds the
\* guard's value tagged with the current schema identity, the cache holds
\* Some(value), get(key) returns it, and the key lock was held until then.
CommitReturnsOk(t) ==
    /\ op[t].kind \in MutKinds
    /\ pc[t] = "finish" /\ pc'[t] = "done"
    /\ IsSome(local[t].wv)
CommitPersistsGuardValue ==
    [][\A t \in Tasks :
        CommitReturnsOk(t)
        => /\ guard[t] = op[t].k
           /\ op[t].k \in DOMAIN table'
           /\ table'[op[t].k] = StoredRow(local[t].ul_value, VALUE_ID)
           /\ CheckCached(cache', op[t].k) = Some(Some(local[t].ul_value))
           /\ Get0(cache', table', op[t].k)
                = [st |-> "ok", val |-> Some(local[t].ul_value)]]_vars


(* ------------------------- claims on SpecIntern ---------------------- *)

\* C4: concurrent intern(v) calls for one value all return the same id,
\* one row for v is inserted and one id is allocated for v.
InternOneId ==
    \A v \in InternValues :
        /\ Cardinality(allocated[v]) <= 1
        /\ Cardinality(returned[v]) <= 1
        /\ Cardinality({r \in hive_table : r.name = v}) <= 1


\* C16: for every id intern has returned for a value v, rev_intern(id)
\* returns v and intern(v) returns that id again, from the caches or from
\* the table, whenever no intern call is in flight.
InternRoundTrip ==
    (\A t \in Tasks : itask[t].pc \in {"idle", "done"}) =>
    \A v \in InternValues : \A id \in returned[v] :
        /\ RevInternAlone(rev_cache, hive_table, id) = {v}
        /\ InternAlone(hive_cache, hive_table, max_value, v) = {id}
        /\ \A p \in resolved : p.int_id = id => p.name = v

\* C17: every id taken for a new value is greater than 0, than every id in
\* the table (so than those present at startup) and than every id taken
\* before; no id belongs to two values; rows are never changed or removed.
InternIdsInOrder ==
    /\ \A r \in hive_table : 0 < r.int_id /\ r.int_id < max_value
    /\ \A v \in InternValues : \A id \in allocated[v] \cup returned[v] :
            0 < id /\ id < max_value
    /\ \A v, u \in InternValues :
            v # u => (allocated[v] \cup returned[v] \cup SelectNamesIds(hive_table, v))
                        \cap (allocated[u] \cup returned[u] \cup SelectNamesIds(hive_table, u))
                     = {}
InternIdsMonotone ==
    /\ []InternIdsInOrder
    /\ [][/\ hive_table \subseteq hive_table'
          /\ max_value' >= max_value
          /\ \A v \in InternValues : \A id \in allocated'[v] \ allocated[v] :
                id = max_value /\ max_value' > id]_vars

\* C17 witness: a hive that started with a row has handed out a new id to
\* another value and persisted it
InternNewIdAboveStart ==
    \E r, q \in hive_table :
        /\ r.name # q.name /\ r.int_id < q.int_id
        /\ q.int_id \in allocated[q.name] /\ q.int_id \in returned[q.name]
        /\ r.int_id \notin allocated[r.name]

\* C33: the re-check that intern makes while it holds the lock of its value
\* (no other task holding it) never ends in a fresh id being taken for a
\* value that has a row in the interner table.
InternRecheckSeesRow ==
    [][\A t \in Tasks :
        (/\ itask[t].guard # 0
         /\ \A u \in Tasks \ {t} : itask[u].guard # itask[t].guard
         /\ itask[t].pc # "insert" /\ itask'[t].pc = "insert")
            => ~\E r \in hive_table : r.name = itask[t].value]_vars

(* -------------------------- claims on SpecMig ------------------------ *)

\* C9: if a script of the chain fails during execute, execute returns an
\* error and the tracked version and the schema are those of before the
\* call: nothing of the scripts already run in the call is persisted.
MigFailureLeavesNothing ==
    (mig.pc = "done" /\ mig.failed)
    => /\ mig.result = "err"
       /\ mig_tx = None
       /\ DbContent(mig_db) = mig.pre
       /\ QueryVersion(mig_db, mig.migration.migration_id)
            = QueryVersion(mig.pre, mig.migration.migration_id)

\* C9 witness: a call has failed on a script after running an earlier one
MigFailedMidChain ==
    mig.pc = "done" /\ mig.failed /\ mig.ran >= 1 /\ mig.result = "err"

\* C10: execute commits only if the running version equals target_version
\* after the pass over the scripts; otherwise it returns an error and the
\* tracked version and schema stay as before the call.
MigCommitsOnlyAtTarget ==
    mig.pc = "done"
    => /\ mig.result = "ok"
            => /\ mig.current_version = mig.migration.target_version
               /\ QueryVersion(mig_db, mig.migration.migration_id)
                    = IF mig.ran > 0 THEN mig.current_version ELSE mig.start_version
       /\ mig.current_version # mig.migration.target_version
            => /\ mig.result = "err"
               /\ DbContent(mig_db) = mig.pre
       /\ mig_tx = None

\* C10 witness: no script failed, some script ran on top of a version
\* committed earlier, and the pass ended off the target version
MigMissedTarget ==
    /\ mig.pc = "done" /\ ~mig.failed /\ mig.ran >= 1
    /\ mig.start_version > 0
    /\ mig.current_version # mig.migration.target_version

\* one turn of the pass: the script at position idx of the list is reached
MigTurn ==
    /\ mig.pc = "scripts" /\ mig.idx <= Len(mig.migration.scripts)
    /\ mig' # mig
\* the turn ended the call with an error
MigTurnBailed ==
    /\ mig'.pc = "done" /\ mig'.result = "err"
    /\ mig_tx' = None /\ mig_db' = mig_db

\* C32: execute passes once over the scripts in list order, one position
\* per turn and never back; the script reached is run iff its 'from' equals
\* the running version at that moment; after it has run the running
\* version is its 'to' and the tracking row holds its 'to' inside the open
\* transaction, the committed database being untouched; a script that is
\* passed over leaves the transaction and the running version as they are.
MigSinglePass ==
    [][MigTurn =>
        LET script == mig.migration.scripts[mig.idx]
            id == mig.migration.migration_id
        IN  IF mig.current_version = script.from
            THEN \/ MigTurnBailed
                 \/ /\ mig'.pc = "scripts" /\ mig'.idx = mig.idx + 1
                    /\ mig'.ran = mig.ran + 1
                    /\ mig'.current_version = script.to
                    /\ IsSome(mig_tx')
                    /\ QueryVersion(Unwrap(mig_tx'), id) = script.to
                    /\ Len(Unwrap(mig_tx').schema) = Len(Unwrap(mig_tx).schema) + 1
                    /\ mig_db' = mig_db
            ELSE /\ mig' = [mig EXCEPT !.idx = @ + 1]
                 /\ mig_tx' = mig_tx /\ mig_db' = mig_db]_vars

\* the pass has run a script that left the running version at the 'from'
\* of a script listed before it, and is past both
MigEarlierNotEnabled ==
    /\ mig.pc = "scripts" /\ mig.ran = 1
    /\ \E i \in 1..Len(mig.migration.scripts) : \E j \in 1..Len(mig.migration.scripts) :
        /\ i < j /\ j < mig.idx
        /\ mig.migration.scripts[j].from = mig.start_version
        /\ mig.migration.scripts[j].to = mig.current_version
        /\ mig.migration.scripts[i].from = mig.current_version

(* ------------------------- claims on SpecRepeat ---------------------- *)
\* the committed effects of the script from version f to version t
Committed(f, t) ==
    {i \in 1..Len(mig_db.schema) :
        mig_db.schema[i].from = f /\ mig_db.schema[i].to = t}

\* C29: over repeated execute calls of one descriptor whose scripts are a
\* chain to target_version, the effects of each script are committed at
\* most once; a call that finds the tracked version at target_version runs
\* no script, leaves the database as it is and returns success; and what
\* the repeated-execution watch finds changes nothing of this.
MigAppliedOnce ==
    /\ \A f \in Versions : \A t \in Versions : Cardinality(Committed(f, t)) <= 1
    /\ (mig.pc = "done" /\ mig.start_version = mig.migration.target_version)
        => /\ mig.ran = 0
           /\ mig.result = "ok"
           /\ DbContent(mig_db) = mig.pre
           /\ QueryVersion(mig_db, mig.migration.migration_id)
                = mig.migration.target_version
    /\ (mig.pc = "done" /\ mig.warned # "none")
        => (mig.result = "ok" <=> mig.current_version = mig.migration.target_version)

\* a descriptor whose script was committed by an earlier call has been
\* executed again, and the watch has logged the repetition
MigExecutedAgain ==
    /\ mig.pc = "done" /\ mig.warned = "repeat" /\ mig.result = "ok"
    /\ mig.ran = 0
    /\ Len(mig_db.schema) > 0

(* -------------------------- claims on SpecConn ----------------------- *)

\* C11: a connection dropped with its transaction open is given back to
\* the pool only after the ROLLBACK has completed: no pooled handle is ever
\* released holding a connection that is inside a transaction, no idle slot
\* holds one, and the slot stays checked out while the ROLLBACK is pending.
ConnCleanBeforePool ==
    /\ ~conn_hist.released_in_tx
    /\ \A s \in Slots :
        pool[s].st = "idle" => (IsSome(pool[s].w) => ~Unwrap(pool[s].w).in_tx)
    /\ \A c \in side : pool[c.conn_handle].st = "out"

\* C11 witness: a transaction was dropped open, its ROLLBACK has run on the
\* side task and the pooled handle was released afterwards
ConnRolledBackAndReleased ==
    /\ conn_hist.tx_dropped_open /\ conn_hist.rolled_back
    /\ side = {} /\ job = None
    /\ \A s \in Slots : pool[s].st # "out"

\* C12: dropping a DbTransaction or DbConnection never panics, also when
\* the owning future is cancelled while a SQL call is on the blocking pool.
ConnDropNeverPanics == ~conn_hist.drop_panic

\* C13: is_in_transaction is false each time begin_transaction runs and
\* true each time commit_transaction or rollback_transaction runs: none of
\* their assertions fails.
ConnOneOpenTransaction == ~conn_hist.assert_failed

\* C14: has_broken reports a wrapper as broken exactly when its handle is
\* missing, and connect() never hands out a wrapper without a handle.
HasBrokenIffHandleMissing ==
    /\ IsSome(conn_hist.has_broken)
        => (Unwrap(conn_hist.has_broken).reported
                <=> ~Unwrap(conn_hist.has_broken).had_handle)
    /\ ~conn_hist.handed_empty


(* --------------------------- claims on SpecLru ----------------------- *)

\* C15: for a cache of CacheLines lines the number of resident keys, as
\* entries of key_lookup and as occupied lines, never exceeds CacheLines.
LruResidentBounded ==
    /\ Cardinality(DOMAIN lru.key_lookup) <= CacheLines
    /\ Cardinality({i \in Lines : IsSome(lru.cache_data[i])}) <= CacheLines

\* C30: a writer that finds the occupant of its victim line busy writes
\* nothing and goes round again, and from the step in which a writer marks
\* the occupant of a line busy to the step in which it stores its entry no
\* other writer stores into that line.
BusyWriterBacksOff ==
    \A t \in Tasks :
        (/\ ltask[t].pc = "evict"
         /\ ltask'[t].pc # "evict"
         /\ IsSome(lru.cache_data[ltask[t].line_no])
         /\ Unwrap(lru.cache_data[ltask[t].line_no]).is_busy)
            => lru' = lru /\ ltask'[t].pc = "probe"
MarkedLineIsOwned ==
    \A t \in Tasks : \A u \in Tasks \ {t} :
        (/\ ltask[t].marked /\ ltask[t].kind # "invalidate"
         /\ ltask[t].pc \in {"unlink", "store"}
         /\ ltask[u].pc = "store" /\ ltask[u].line_no = ltask[t].line_no)
            => ltask'[u].pc = "store"
BusyFlagProtocol == [][BusyWriterBacksOff /\ MarkedLineIsOwned]_vars

\* C35: under fair scheduling every call of insert, cached and invalidate
\* that has started returns, after any history of calls.
LruCallsTerminate ==
    \A t \in Tasks : (ltask[t].pc # "idle") ~> (ltask[t].pc = "idle")

CachedKeepsResident ==
    [][\A t \in Tasks :
        (/\ ltask[t].kind = "cached" /\ ltask[t].pc = "probe"
         /\ ltask'[t].pc # "probe"
         /\ IsSome(CheckCached(lru, ltask[t].key)))
            => /\ lru' = lru
               /\ ltask'[t].pc = "idle"
               /\ CheckCached(lru', ltask[t].key) = CheckCached(lru, ltask[t].key)]_vars

\* a cached call missed, computed, and then found its key resident
CachedLateResultDropped == "kept" \in lru_hist

(* -------------------------- claims on SpecLookup --------------------- *)
\* C38: a lookup of key k returns nothing or a value that an insert or a
\* cached call wrote for k, never the value of another key, also when
\* key_lookup names for k a line that another key occupies.
LookupReturnsOwnValue ==
    \A k \in lru_run.keys :
        IsSome(CheckCached(lru, k)) => Unwrap(CheckCached(lru, k)) \in lru_run.values[k]

\* key_lookup names for a key a line that holds another key and its value,
\* and the lookup of the key returns nothing
LookupIndexStale ==
    \E k \in DOMAIN lru.key_lookup :
        /\ IsSome(lru.cache_data[lru.key_lookup[k]])
        /\ Unwrap(lru.cache_data[lru.key_lookup[k]]).key # k
        /\ Unwrap(lru.cache_data[lru.key_lookup[k]]).value \notin lru_run.values[k]
        /\ CheckCached(lru, k) = None

(* ---------------------- claims on SpecReg, SpecNames ----------------- *)

\* C18: a table name allocated in a registration pass is never one recorded
\* in either tracking table nor one allocated earlier in the pass, the probe
\* finds a name before unique_id runs out, and stores (and tracking rows) of
\* different module paths have different table names.
RegNamesDistinct ==
    /\ ~reg_hist.clash
    /\ ~reg_hist.exhausted
    /\ \A r, q \in kvs_info :
            r.module_path # q.module_path => r.table_name # q.table_name
    /\ \A b, c \in bound :
            b.module_path # c.module_path => b.table_name # c.table_name

\* C18 witness: a pass completed in which two stores of different module
\* paths are bound and a name needed a second probe
RegSaltedName ==
    /\ reg.pc = "ready"
    /\ reg_hist.salted
    /\ reg_hist.created # {}
    /\ Cardinality({b.module_path : b \in bound}) >= 2

\* C19: a pass that follows a completed pass and registers the same stores
\* creates no table and no tracking row, completes, and binds every store
\* to the table name it had.
RegIdempotent ==
    (/\ reg.pc \in {"ready", "drop_failed"}
     /\ reg_hist.prev_ok
     /\ reg.stores = reg_hist.prev_stores)
    => /\ reg_hist.created = {}
       /\ reg_hist.rows_added = 0
       /\ reg.pc = "ready"
       /\ bound = reg_hist.prev_bound

\* C20: when the pass is past its drop loop, no table tracked as transient
\* and not claimed in the pass exists any more, and every table dropped was
\* tracked as transient and not claimed.
RegDropsUnclaimedTransient ==
    reg.pc \in {"ready", "drop_failed"} =>
        /\ \A md \in reg.module_metadata :
                (md.is_transient /\ ~md.is_used) => TableOf(md) \notin db_tables
        /\ \A t \in reg_hist.dropped :
                /\ t.is_transient
                /\ \A md \in reg.module_metadata :
                        md.is_used => TableOf(md) # t

\* C37: once init_kvs has finished, and so at the restart that follows, a
\* tracking row for a table exists iff the table exists.
RegRowsMatchTables ==
    reg.pc = "ready" => {TableOf(r) : r \in kvs_info} = db_tables

(* --------------------------- claims on SpecDrift --------------------- *)

\* C21: a store that registers under a tracked (module path, transience)
\* with another key schema id or version aborts the pass: the step that
\* finds the mismatch changes no table and no tracking row, nothing is
\* dropped and nothing is delivered to the stores afterwards, and no pass
\* with such a store reaches the serving state.
RegDriftState ==
    /\ reg.pc = "panicked" => bound = {} /\ reg_hist.dropped = {}
    /\ reg.pc = "ready" =>
            \A st \in reg.stores : \A r \in kvs_info :
                TargetOf(r) = KvsTarget(st) => KeySchemaOf(r) = KeySchemaOf(st)
RegDriftIsFatal ==
    /\ []RegDriftState
    /\ [][(reg'.pc = "panicked" /\ reg.pc # "panicked")
            => UNCHANGED << kvs_info, db_tables, bound >>]_vars

\* C21 witness: a pass stopped at a store whose tracked table exists and
\* whose row carries another key schema
RegDriftFound ==
    /\ reg.pc = "panicked"
    /\ \E st \in reg.stores : \E r \in kvs_info :
            /\ TargetOf(r) = KvsTarget(st)
            /\ KeySchemaOf(r) # KeySchemaOf(st)
            /\ TableOf(r) \in db_tables

(* ------------------------ claims on SpecOld ------------------------ *)
\* the row of key k carries a schema the value type neither is at nor
\* migrates from
ForeignRow(k) ==
    /\ k \in DOMAIN table
    /\ ~(table[k].schema_id = VALUE_ID /\ table[k].schema_ver = SCHEMA_VERSION)
    /\ ~CanMigrateFrom(table[k].schema_id, table[k].schema_ver)

\* C22: while the row of a key carries a foreign schema with no migration,
\* a persistent store answers get(key) with an error, keeps nothing in the
\* cache for the key and so fails every later get the same way, and a
\* transient store answers get(key) with None.
GetOnForeignRow ==
    \A k \in Keys : ForeignRow(k) =>
        IF kvs_run.is_transient
        THEN /\ Get0(cache, table, k) = [st |-> "ok", val |-> None]
             /\ \A t \in Tasks :
                    pc[t] = "done" /\ op[t] = [kind |-> "get", k |-> k, v |-> DefaultValue]
                        => ret[t] = [st |-> "ok", val |-> None]
        ELSE /\ CheckCached(cache, k) = None
             /\ Get0(cache, table, k).st = "err"
             /\ \A t \in Tasks :
                    pc[t] = "done" /\ op[t] = [kind |-> "get", k |-> k, v |-> DefaultValue]
                        => ret[t].st = "err"

\* C28: a lookup through cached_async that finds a value resident for the
\* key does not run the future: it leaves cache and table as they are and
\* get returns a copy of the resident value.
CachedHitSkipsCompute ==
    [][\A t \in Tasks :
        (/\ pc[t] = "check" /\ pc'[t] # "check"
         /\ IsSome(CheckCached(cache, op[t].k)))
            => /\ pc'[t] # "load"
               /\ cache' = cache /\ table' = table
               /\ op[t].kind = "get" =>
                    ret'[t] = [st |-> "ok", val |-> Unwrap(CheckCached(cache, op[t].k))]]_vars

\* a get has returned the value a set left resident, without loading it
CachedHitReturned ==
    \E t \in Tasks :
        /\ pc[t] = "done" /\ op[t].kind = "get"
        /\ ret[t].st = "ok" /\ IsSome(ret[t].val)
        /\ local[t].loaded = None
        /\ CheckCached(cache, op[t].k) = Some(ret[t].val)

\* a persistent store has failed a get of the key and then a later one
GetFailedAgain ==
    /\ ~kvs_run.is_transient
    /\ calls >= 2
    /\ \E k \in Keys : \E t \in Tasks :
        /\ ForeignRow(k)
        /\ pc[t] = "done" /\ op[t].kind = "get" /\ op[t].k = k
        /\ ret[t].st = "err"
        /\ \A u \in Tasks : pc[u] \in {"idle", "done"}
NoGetFailedAgain == ~GetFailedAgain
(* ----------------------- claims on SpecUpgrade ----------------------- *)
\* C39: no step of a get call changes the table (no row, no value blob, no
\* schema id or version of a row), and no step of it touches the lock map
\* or holds a guard; this also when the get returns a value its declared
\* migration has upgraded.
GetLeavesTable ==
    [][\A t \in Tasks :
        (op[t].kind = "get" /\ pc'[t] # pc[t])
            => /\ table' = table
               /\ locks' = locks
               /\ guard' = guard /\ guard[t] = 0]_vars

\* a get has returned the upgraded value of a row that still holds the old
\* blob under the old schema version
GetReturnedUpgraded ==
    \E t \in Tasks :
        /\ pc[t] = "done" /\ op[t].kind = "get"
        /\ op[t].k \in DOMAIN table /\ table[op[t].k] = OldRow(1)
        /\ ret[t] = [st |-> "ok",
                     val |-> Some(DoMigration(VALUE_ID, SCHEMA_VERSION - 1,
                                              OldRow(1).value))]
        /\ ret[t].val # Some(Deserialize(OldRow(1).value))

(* ----------------------- claims on SpecGetSet ------------------------ *)
\* C36: whenever no set, remove or commit on a key is in flight, a cache
\* entry resident for the key equals what the table holds for it: Some(v)
\* for a row holding v, None for no row.
KvsCacheCoherent ==
    \A k \in Keys :
        (/\ \A t \in Tasks : ~MutationInFlight(t, k)
         /\ IsSome(CheckCached(cache, k)))
            => Unwrap(CheckCached(cache, k)) = GetDb(table, k).val

(* ------------------------ claims on the lock map ------------------------ *)
\* C24: the lock map holds an entry for a key exactly while a guard for
\* the key is live or a task waits for it, so with no guard and no waiter
\* the map is empty.
LockEntryWhileLocked ==
    \A k \in Keys :
        k \in DOMAIN locks <=>
            \E t \in Tasks :
                \/ guard[t] = k
                \/ pc[t] = "wait" /\ op[t].k = k
\* C34: no drop of a LockSetGuard panics: every live guard finds the entry
\* of its key in the lock map, so remove(&key).unwrap() has an entry to
\* take, whatever lock, try_lock and drops of other guards did meanwhile.
GuardDropNeverPanics ==
    /\ \A t \in Tasks : guard[t] # 0 => ~DropPanics(locks, guard[t])
    /\ \A t \in Tasks : pc[t] # "panicked"
\* C23: under fair scheduling every task that called lock(key) obtains
\* the guard, no task stays suspended in lock forever, and a guard drop
\* wakes every task queued for the key.
LockObtained ==
    \A t \in Tasks : pc[t] \in {"lock", "wait"} ~> guard[t] # 0
DropWakesAll ==
    [][\A t \in Tasks : \A u \in Tasks :
        (/\ guard[t] # 0 /\ guard'[t] = 0
         /\ pc[u] = "wait" /\ op[u].k = guard[t])
            => pc'[u] = "lock"]_vars
PoolNoDeadlock ==
    (\E t \in Tasks : cfg[t].pc # "idle") =>
        \/ PoolGetReady
        \/ \E t \in Tasks : cfg[t].pc \in {"scoped", "interned", "query", "execute"}

(* ------------------------ claims on SpecSing ------------------------- *)
\* a task whose update is in flight: it holds a SingletonMutGuard, or its
\* commit() has released the lock and its set_raw has not written yet
SingUpdating(t) ==
    \/ stask[t].pc = "guard"
    \/ stask[t].pc = "set_raw" /\ stask[t].from = "commit"

\* C40: SingletonStore updates are not lost. While a SingletonMutGuard is
\* live and until its commit() has finished writing, no other task holds a
\* guard on the singleton (none has read the value the commit is about to
\* replace); and once every call has returned, with no set call made,
\* cached_instance and the stored row hold the default value with the
\* mutation of every committed guard applied.
SingletonUpdatesKept ==
    /\ \A t, u \in Tasks :
           (t # u /\ SingUpdating(t)) => stask[u].pc # "guard"
    /\ ((\A t \in Tasks : stask[t].pc = "idle") /\ sing_hist.sets = 0)
           => /\ cached_instance = Some(DefaultValue + sing_hist.commits)
              /\ Deserialize(singletons.value)
                     = DefaultValue + sing_hist.commits
====
